---- MODULE Spec2Model ----
(***************************************************************************)
(* Access control and canvas persistence of the editor backend.            *)
(*                                                                         *)
(* The three Mongo collections (canvas_designs, canvas_access, comments)   *)
(* are sets of documents.  Every request handler of CanvasController is    *)
(* one action: it runs its existence lookup, its access check, its store   *)
(* calls and writes the HTTP response.  Handlers are taken from the most   *)
(* recent definition of each one: saveCanvas, getCanvas, deleteCanvas,     *)
(* createBlankCanvas, updateCanvas and shareCanvas from                    *)
(* src/controllers/CanvasController.ts (second class, lines 295-705), and  *)
(* shareCanvasWithMultipleUsers, saveComment and getComments from          *)
(* unnamed/part_008.  The models are CanvasAccess.ts, Comment.ts and the   *)
(* CanvasDesign model of unnamed/part_001.                                 *)
(*                                                                         *)
(* Spec carries the access-control requests.  SpecShare, SpecBulk,         *)
(* SpecContent, SpecList and SpecStore run the same actions on the request *)
(* domains their properties need: share targets that are arbitrary         *)
(* strings, every bulk share body, metadata and snapshots over time, the   *)
(* listing query on every store, and every store operation before and     *)
(* after the database is connected.                                        *)
(***************************************************************************)
EXTENDS Integers, Sequences, FiniteSets, TLC

VARIABLES
    canvas_designs,   \* collection 'canvas_designs': set of CanvasDesign documents
    canvas_access,    \* collection 'canvas_access': set of CanvasAccess documents
    comments,         \* collection 'comments': set of Comment documents
    connected,        \* the models' collection fields are set (database.ts connectDatabase)
    now,              \* the value new Date() yields
    startup,          \* connectDatabase: its position, retries and isConnected
    inflight,         \* the store calls in progress, one per concurrent request
    res               \* the response written by the last handler

vars == <<canvas_designs, canvas_access, comments, connected, now, startup, inflight, res>>

\* the state that request handlers and store methods never write
aux == <<startup, inflight>>

-----------------------------------------------------------------------------
(* Bounds and input domains *)

\* longest designData.objects array a request carries
MaxObjects == 1
\* longest userIds array a bulk share request carries
MaxTargets == 2
\* latest value of the clock
MaxTime == 1
\* longest Yjs state (in bytes) a snapshot write carries
MaxBlob == 1
\* largest limit and offset query parameters of a listing request
MaxLimit == 2
MaxOffset == 2

\* registered users (documents of the 'users' collection); req.user.userId
Users == {"u1", "u2"}
\* a well-formed user id with no user document, and a string that is not an ObjectId
GhostUser == "u9"
MalformedUser == "zz"
\* canvas ids: randomUUID() results and the :id path parameter
CanvasIds == {"a", "a-b"}
\* client-generated comment ids
CommentIds == {"c1"}
Roles == {"owner", "editor", "viewer"}

\* Request domains.  Every handler is requested on canvas "a" by every user.
\* Canvas "a-b" is a second canvas next to it: user "u1" creates, saves, reads,
\* updates and deletes it, and no share, revoke or comment request names it.
Requesters(id) == IF id = "a" THEN Users ELSE {"u1"}
SharedIds == {"a"}

\* fabric objects
ObjectNames == {"o1"}
ObjectArrays == UNION {[1..n -> ObjectNames] : n \in 0..MaxObjects}

\* req.body.designData: absent, a non-object, or an object whose version may be
\* missing ("") and whose objects field may or may not be an array
ValidDesignData ==
    {[type |-> "object", version |-> "6.7.1", objects |-> [isArray |-> TRUE, items |-> o]] :
        o \in ObjectArrays}
InvalidDesignData ==
    { [type |-> "undefined", version |-> "", objects |-> [isArray |-> FALSE, items |-> <<>>]],
      [type |-> "string", version |-> "", objects |-> [isArray |-> FALSE, items |-> <<>>]],
      [type |-> "object", version |-> "", objects |-> [isArray |-> TRUE, items |-> <<>>]],
      [type |-> "object", version |-> "6.7.1", objects |-> [isArray |-> FALSE, items |-> <<>>]] }
DesignDataInputs == ValidDesignData \cup InvalidDesignData

\* req.body.metadata || {}: a metadata without createdAt (<<>>), or with one
NoMetadata == [createdAt |-> <<>>]
MetadataInputs == {NoMetadata} \cup {[createdAt |-> <<t>>] : t \in 0..MaxTime}

\* Uint8Array values: the Yjs states of snapshot writes, the empty one included
Bytes == {0, 255}
Blobs == UNION {[1..n -> Bytes] : n \in 0..MaxBlob}

NoData == [type |-> "undefined", version |-> "", objects |-> [isArray |-> FALSE, items |-> <<>>]]

-----------------------------------------------------------------------------
(* CanvasAccessModel *)

roleHierarchy == [owner |-> 3, editor |-> 2, viewer |-> 1]

\* collection.findOne({canvasId, userId}); the set is empty when there is no match
findAccess(coll, canvasId, userId) ==
    {x \in coll : x.canvasId = canvasId /\ x.userId = userId}

\* hasAccess with > in place of >=
hasAccess_strict(coll, canvasId, userId, requiredRole) ==
    LET requiredLevel == roleHierarchy[requiredRole]
        found == findAccess(coll, canvasId, userId)
    IN  IF found = {}
        THEN FALSE
        ELSE LET access == CHOOSE x \in found : TRUE
                 userLevel == roleHierarchy[access.role]
             IN  userLevel > requiredLevel

\* hasAccess that rejects a grant whose expiresAt lies in the past
hasAccess_unexpired(coll, canvasId, userId, requiredRole) ==
    LET requiredLevel == roleHierarchy[requiredRole]
        found == findAccess(coll, canvasId, userId)
    IN  IF found = {}
        THEN FALSE
        ELSE LET access == CHOOSE x \in found : TRUE
                 userLevel == roleHierarchy[access.role]
                 expired == /\ "expiresAt" \in DOMAIN access
                            /\ access.expiresAt # <<>>
                            /\ access.expiresAt[1] < now
             IN  userLevel >= requiredLevel /\ ~expired

hasAccess(coll, canvasId, userId, requiredRole) ==
    LET requiredLevel == roleHierarchy[requiredRole]
        found == findAccess(coll, canvasId, userId)
    IN  IF found = {}
        THEN FALSE
        ELSE LET access == CHOOSE x \in found : TRUE
                 userLevel == roleHierarchy[access.role]
             IN  userLevel >= requiredLevel

\* the document grantAccess builds
accessDoc(canvasId, userId, role, grantedBy) ==
    [_id |-> canvasId \o "-" \o userId, canvasId |-> canvasId, userId |-> userId,
     role |-> role, grantedBy |-> grantedBy, grantedAt |-> now]

\* replaceOne({_id}, access, {upsert: true})
\* a write that sets the role of a stored document and keeps its other fields
replaceOne_roleOnly(coll, doc) ==
    IF \E x \in coll : x._id = doc._id
    THEN {IF x._id = doc._id THEN [x EXCEPT !.role = doc.role] ELSE x : x \in coll}
    ELSE coll \cup {doc}

\* collection.replaceOne({_id: doc._id}, doc, {upsert: true})
replaceOne(coll, doc) == {x \in coll : x._id # doc._id} \cup {doc}

grantAccess(coll, canvasId, userId, role, grantedBy) ==
    LET access == accessDoc(canvasId, userId, role, grantedBy)
    IN  replaceOne(coll, access)

\* deleteOne({canvasId, userId})
\* a revocation that refuses to remove an owner grant
revokeAccess_keepsOwner(coll, canvasId, userId) ==
    LET found == {x \in findAccess(coll, canvasId, userId) : x.role # "owner"}
    IN  IF found = {} THEN coll ELSE coll \ {CHOOSE x \in found : TRUE}

revokeAccess(coll, canvasId, userId) ==
    LET found == findAccess(coll, canvasId, userId)
    IN  IF found = {} THEN coll ELSE coll \ {CHOOSE x \in found : TRUE}

\* result.deletedCount of the deleteOne of revokeAccess
revokedCount(coll, after) == Cardinality(coll \ after)

\* getUserCanvases(userId): the canvasId of every grant of the user
getUserCanvases(coll, userId) == {x.canvasId : x \in {y \in coll : y.userId = userId}}

\* deleteMany({canvasId})
deleteCanvasAccess(coll, canvasId) ==
    {x \in coll : x.canvasId # canvasId}

-----------------------------------------------------------------------------
(* CanvasDesignModel *)

\* collection.findOne({_id: id}); the set is empty when there is no match
findById(coll, id) == {d \in coll : d._id = id}

\* a CanvasDesign document as save and createBlank build it: no yjsState and
\* no lastSaved field (<<>>); metadata.version and metadata.title are left out
canvasDoc(id, userId, designData, createdAt, updatedAt) ==
    [_id |-> id, userId |-> userId, designData |-> designData,
     metadata |-> [createdAt |-> createdAt, updatedAt |-> updatedAt],
     yjsState |-> <<>>, lastSaved |-> <<>>]

\* metadata.createdAt || now, with <<>> for a metadata without createdAt
createdAtOr(metadata, t) ==
    IF metadata.createdAt # <<>> THEN metadata.createdAt[1] ELSE t

\* save without the owner grant of a new canvas
save_noGrant(designs, access, id, userId, designData, metadata) ==
    [designs |-> {d \in designs : d._id # id}
                 \cup {canvasDoc(id, userId, designData, createdAtOr(metadata, now), now)},
     access  |-> access]

\* save(id, userId, designData, metadata): the new contents of both collections
save(designs, access, id, userId, designData, metadata) ==
    LET canvasDesign == canvasDoc(id, userId, designData, createdAtOr(metadata, now), now)
        isNewCanvas == findById(designs, id) = {}
        designs2 == {d \in designs : d._id # id} \cup {canvasDesign}
    IN  [designs |-> designs2,
         access  |-> IF isNewCanvas
                     THEN grantAccess(access, id, userId, "owner", userId)
                     ELSE access]

blankDesignData ==
    [type |-> "object", version |-> "6.7.1", objects |-> [isArray |-> TRUE, items |-> <<>>]]

\* createBlank(userId, metadata) with id the result of randomUUID()
createBlank(designs, access, id, userId) ==
    [designs |-> designs \cup {canvasDoc(id, userId, blankDesignData, now, now)},
     access  |-> grantAccess(access, id, userId, "owner", userId)]

\* delete without the cascade on canvas_access
delete_noCascade(designs, access, id) ==
    [designs |-> {d \in designs : d._id # id},
     access  |-> access,
     deleted |-> findById(designs, id) # {}]

\* delete(id): deleteOne({_id: id}) and, when a document was removed, the cascade
delete(designs, access, id) ==
    LET deletedCount == Cardinality(findById(designs, id))
    IN  [designs |-> {d \in designs : d._id # id},
         access  |-> IF deletedCount > 0 THEN deleteCanvasAccess(access, id) ELSE access,
         deleted |-> deletedCount > 0]

\* Buffer.from(uint8Array) and new Uint8Array(buffer): a copy, byte by byte
BufferFrom(bytes) == [i \in 1..Len(bytes) |-> bytes[i] % 256]
Uint8ArrayFrom(buffer) == [i \in 1..Len(buffer) |-> buffer[i] % 256]

\* updateOne({_id}, {$set: {yjsState, lastSaved, 'metadata.updatedAt'}}): the
\* matching document, if any, gets the three fields; yjsState and lastSaved
\* hold <<value>> when the field is set
\* a snapshot write that appends the new bytes to the stored snapshot
CanvasDesignModel_saveYjsState_merge(designs, canvasId, yjsState) ==
    {IF d._id = canvasId
     THEN [d EXCEPT !.yjsState = <<(IF d.yjsState = <<>> THEN <<>> ELSE d.yjsState[1])
                                     \o BufferFrom(yjsState)>>,
                    !.lastSaved = <<now>>,
                    !.metadata.updatedAt = now]
     ELSE d : d \in designs}

\* updateOne with {upsert: true}: a document is created when none matches
CanvasDesignModel_saveYjsState_upsert(designs, canvasId, yjsState) ==
    IF findById(designs, canvasId) = {}
    THEN designs \cup {[canvasDoc(canvasId, "", NoData, now, now)
                          EXCEPT !.yjsState = <<BufferFrom(yjsState)>>, !.lastSaved = <<now>>]}
    ELSE {IF d._id = canvasId
          THEN [d EXCEPT !.yjsState = <<BufferFrom(yjsState)>>,
                         !.lastSaved = <<now>>,
                         !.metadata.updatedAt = now]
          ELSE d : d \in designs}

CanvasDesignModel_saveYjsState(designs, canvasId, yjsState) ==
    {IF d._id = canvasId
     THEN [d EXCEPT !.yjsState = <<BufferFrom(yjsState)>>,
                    !.lastSaved = <<now>>,
                    !.metadata.updatedAt = now]
     ELSE d : d \in designs}

\* canvas?.yjsState ? new Uint8Array(canvas.yjsState) : null, with <<>> for
\* null; a Buffer is truthy whatever its length
CanvasDesignModel_loadYjsState(designs, canvasId) ==
    LET found == findById(designs, canvasId)
    IN  IF found = {} THEN <<>>
        ELSE LET canvas == CHOOSE d \in found : TRUE
             IN  IF canvas.yjsState # <<>>
                 THEN <<Uint8ArrayFrom(canvas.yjsState[1])>>
                 ELSE <<>>

\* the results of find(...).sort({'metadata.updatedAt': -1}): every order of
\* the documents' ids with updatedAt descending (equal keys in any order)
sortedByUpdatedAt(docs) ==
    {s \in [1..Cardinality(docs) -> {d._id : d \in docs}] :
        /\ \A i, j \in DOMAIN s : i # j => s[i] # s[j]
        /\ \A i, j \in DOMAIN s : i < j =>
              (CHOOSE d \in docs : d._id = s[i]).metadata.updatedAt
                >= (CHOOSE d \in docs : d._id = s[j]).metadata.updatedAt}

\* cursor.skip(offset).limit(limit); limit(0) sets no limit
skipLimit(s, offset, limit) ==
    LET last == IF limit = 0 \/ offset + limit > Len(s) THEN Len(s) ELSE offset + limit
    IN  SubSeq(s, offset + 1, last)

\* findUserAccessibleCanvases whose total counts the ids of the union
findUserAccessibleCanvases_countIds(designs, access, userId, limit, offset) ==
    LET accessCanvasIds == getUserCanvases(access, userId)
        ownedCanvasIds == {d._id : d \in {e \in designs : e.userId = userId}}
        allCanvasIds == accessCanvasIds \cup ownedCanvasIds
        matched == {d \in designs : d._id \in allCanvasIds}
    IN  IF allCanvasIds = {}
        THEN {[data |-> <<>>, total |-> 0]}
        ELSE {[data |-> skipLimit(s, offset, limit), total |-> Cardinality(allCanvasIds)] :
                s \in sortedByUpdatedAt(matched)}

\* findUserAccessibleCanvases(userId, limit, offset): the set of results the
\* queries can give, data as the sequence of the documents' ids
findUserAccessibleCanvases(designs, access, userId, limit, offset) ==
    LET accessCanvasIds == getUserCanvases(access, userId)
        ownedCanvasIds == {d._id : d \in {e \in designs : e.userId = userId}}
        allCanvasIds == accessCanvasIds \cup ownedCanvasIds
        matched == {d \in designs : d._id \in allCanvasIds}
    IN  IF allCanvasIds = {}
        THEN {[data |-> <<>>, total |-> 0]}
        ELSE {[data |-> skipLimit(s, offset, limit), total |-> Cardinality(matched)] :
                s \in sortedByUpdatedAt(matched)}

-----------------------------------------------------------------------------
(* CommentModel *)

commentDoc(canvasId, id, authorId, timestamp, text) ==
    [_id |-> canvasId \o "-" \o id, canvasId |-> canvasId, id |-> id,
     authorId |-> authorId, timestamp |-> timestamp, text |-> text,
     createdAt |-> now, updatedAt |-> now]

\* replaceOne({_id}, commentToInsert, {upsert: true})
CommentModel_saveComment(coll, canvasId, id, authorId, timestamp, text) ==
    LET commentToInsert == commentDoc(canvasId, id, authorId, timestamp, text)
    IN  {x \in coll : x._id # commentToInsert._id} \cup {commentToInsert}

\* find({canvasId}): the documents, before the sort on timestamp
getCommentsByCanvasId(coll, canvasId) == {x \in coll : x.canvasId = canvasId}

\* a listing in store order, whatever the timestamps
sortByTimestamp_unsorted(docs) ==
    {s \in [1..Cardinality(docs) -> docs] : \A i, j \in DOMAIN s : i # j => s[i] # s[j]}

\* .sort({timestamp: 1}).toArray(): the documents in ascending timestamp
\* order; the order of documents with equal timestamps is the store's
sortByTimestamp(docs) ==
    {s \in [1..Cardinality(docs) -> docs] :
        /\ \A i, j \in DOMAIN s : i # j => s[i] # s[j]
        /\ \A i, j \in DOMAIN s : i < j => s[i].timestamp <= s[j].timestamp}

\* deleteOne({_id: `${canvasId}-${commentId}`})
CommentModel_deleteComment(coll, canvasId, commentId) ==
    {x \in coll : x._id # canvasId \o "-" \o commentId}

\* deleteMany({canvasId})
deleteCommentsByCanvasId(coll, canvasId) == {x \in coll : x.canvasId # canvasId}

-----------------------------------------------------------------------------
(* Responses *)

\* the fields of a response the properties read: the status, the designData
\* of a read, the page and pagination of a listing, the per-target outcome of
\* a bulk share, and the value a snapshot load returns
response(op, userId, id, status, data) ==
    [op |-> op, userId |-> userId, id |-> id, status |-> status, data |-> data,
     list |-> <<>>, total |-> 0, limit |-> 0, offset |-> 0,
     successful |-> <<>>, failed |-> <<>>, totalProcessed |-> 0, yjsState |-> <<>>,
     deleted |-> FALSE]

\* a store method that runs whether or not its collection is set
notConnected_never == FALSE

\* if (!this.collection) throw new Error('Database not connected'): the first
\* statement of every method of the three models
notConnected == ~connected

\* the catch block of every handler: status 500 for an error thrown by a store
\* call, here 'Database not connected'; nothing was written
serverError(op, userId, id) ==
    /\ res' = response(op, userId, id, 500, NoData)
    /\ UNCHANGED <<canvas_designs, canvas_access, comments, connected, now, aux>>

\* let retries = 3
MaxRetries == 3
\* the awaited calls of one connection attempt, in order: mongoClient.connect()
\* and the connect() of each model
ConnectOrder == <<"mongoClient", "canvasModel", "userModel", "canvasAccessModel">>
ConnectSteps == {ConnectOrder[i] : i \in DOMAIN ConnectOrder}

\* connectDatabase before its first call.  pc is 0 when no call is running,
\* i in 1..4 when the running attempt is at ConnectOrder[i], and 5 during the
\* 2 s wait before the next attempt; done holds the calls of ConnectOrder the
\* latest attempt completed, attempts counts the attempts of the latest call.
notStarted ==
    [pc |-> 0, retries |-> 0, isConnected |-> FALSE, done |-> {}, attempts |-> 0]

\* the concurrent requests, and the record of a request that has made no call
Procs == {"p1", "p2"}
noCall == [op |-> "none", pc |-> "none"]

Init ==
    /\ canvas_designs = {}
    /\ canvas_access = {}
    /\ comments = {}
    /\ connected = FALSE
    /\ now = 0
    /\ startup = notStarted
    /\ inflight = [p \in Procs |-> noCall]
    /\ res = response("none", "", "", 0, NoData)

-----------------------------------------------------------------------------
(* config/database.ts *)

\* connectDatabase, an attempt that succeeds: the client connects and the
\* models' connect() calls set their collection fields.  database.ts calls
\* connect() on the canvas, user and access models; the comment model's
\* connect() (Comment.ts) is taken to be called with them.
connectDatabase ==
    /\ ~connected
    /\ startup.pc = 0
    /\ connected' = TRUE
    /\ startup' = [pc |-> 0, retries |-> MaxRetries, isConnected |-> TRUE,
                   done |-> ConnectSteps, attempts |-> 1]
    /\ res' = response("connectDatabase", "", "", 0, NoData)
    /\ UNCHANGED <<canvas_designs, canvas_access, comments, now, inflight>>

\* connectDatabase step by step.  The call: it returns at once when
\* isConnected, and starts the first of its attempts otherwise.
connectDatabaseCall ==
    /\ startup.pc = 0
    /\ startup' = IF startup.isConnected
                  THEN [startup EXCEPT !.attempts = 0]
                  ELSE [startup EXCEPT !.pc = 1, !.retries = MaxRetries,
                                       !.done = {}, !.attempts = 1]
    /\ res' = response("connectDatabaseCall", "", "", 0, NoData)
    /\ UNCHANGED <<canvas_designs, canvas_access, comments, connected, now, inflight>>

\* the awaited call at ConnectOrder[pc] resolves: the attempt goes on, and
\* after the last one (break) isConnected is set and the call returns
attemptStepSucceeds ==
    /\ startup.pc \in DOMAIN ConnectOrder
    /\ LET last == startup.pc = Len(ConnectOrder)
       IN  /\ startup' = [startup EXCEPT
                            !.pc = IF last THEN 0 ELSE @ + 1,
                            !.done = @ \cup {ConnectOrder[startup.pc]},
                            !.isConnected = last]
           /\ connected' = last
    /\ res' = response("connectDatabaseStep", "", "", 0, NoData)
    /\ UNCHANGED <<canvas_designs, canvas_access, comments, now, inflight>>

\* a failing attempt that marks the service connected when no retry is left
attemptStepFails_marksConnected ==
    /\ startup.pc \in DOMAIN ConnectOrder
    /\ startup' = [startup EXCEPT
                     !.retries = @ - 1,
                     !.pc = IF startup.retries - 1 = 0 THEN 0 ELSE Len(ConnectOrder) + 1,
                     !.isConnected = startup.retries - 1 = 0]
    /\ res' = response("connectDatabaseStep", "", "", 500, NoData)
    /\ UNCHANGED <<canvas_designs, canvas_access, comments, connected, now, inflight>>

\* the awaited call at ConnectOrder[pc] rejects: retries--, and either the
\* error is thrown to the outer catch, which lets the server start without
\* the database, or the 2 s wait starts
attemptStepFails ==
    /\ startup.pc \in DOMAIN ConnectOrder
    /\ startup' = [startup EXCEPT
                     !.retries = @ - 1,
                     !.pc = IF startup.retries - 1 = 0 THEN 0 ELSE Len(ConnectOrder) + 1]
    /\ res' = response("connectDatabaseStep", "", "", 500, NoData)
    /\ UNCHANGED <<canvas_designs, canvas_access, comments, connected, now, inflight>>

\* the wait is over: the next attempt starts with a new MongoClient
nextAttempt ==
    /\ startup.pc = Len(ConnectOrder) + 1
    /\ startup' = [startup EXCEPT !.pc = 1, !.done = {}, !.attempts = @ + 1]
    /\ res' = response("connectDatabaseStep", "", "", 0, NoData)
    /\ UNCHANGED <<canvas_designs, canvas_access, comments, connected, now, inflight>>

-----------------------------------------------------------------------------
(* UserModel *)

\* userModel.findById(userId): new ObjectId(userId) throws on a malformed id,
\* findOne returns null when no user document has the id
userLookup(userId) ==
    IF userId = MalformedUser THEN "throws"
    ELSE IF userId \in Users THEN "found"
    ELSE "null"

-----------------------------------------------------------------------------
(* CanvasController *)

\* if (!designData)
designDataMissing(designData) == designData.type = "undefined"

\* if (typeof designData !== 'object' || !designData.version || !Array.isArray(designData.objects))
designDataInvalid(designData) ==
    \/ designData.type # "object"
    \/ designData.version = ""
    \/ ~designData.objects.isArray

\* the access check with the self-heal grant written for any requester
checkAccessSelfHeal_anyCaller(access, canvas, id, userId, requiredRole) ==
    LET permitted == hasAccess(access, id, userId, requiredRole)
    IN  IF ~permitted
        THEN [access |-> grantAccess(access, id, userId, "owner", userId), hasAccess |-> TRUE]
        ELSE [access |-> access, hasAccess |-> permitted]

\* the access check of getCanvas, updateCanvas and shareCanvas: hasAccess, then
\* the self-heal grant when the requester is the canvas's userId
checkAccessSelfHeal(access, canvas, id, userId, requiredRole) ==
    LET permitted == hasAccess(access, id, userId, requiredRole)
    IN  IF ~permitted /\ canvas.userId = userId
        THEN [access |-> grantAccess(access, id, userId, "owner", userId), hasAccess |-> TRUE]
        ELSE [access |-> access, hasAccess |-> permitted]

\* getCanvas that answers every requester
getCanvas_noCheck(id, userId) ==
    IF notConnected THEN serverError("getCanvas", userId, id) ELSE
    LET found == findById(canvas_designs, id)
    IN  /\ res' = IF found = {}
                  THEN response("getCanvas", userId, id, 404, NoData)
                  ELSE response("getCanvas", userId, id, 200, (CHOOSE d \in found : TRUE).designData)
        /\ UNCHANGED <<canvas_designs, canvas_access, comments, connected, now, aux>>

\* deleteCanvas that asks for editor in place of owner
deleteCanvas_editor(id, userId) ==
    IF notConnected THEN serverError("deleteCanvas", userId, id) ELSE
    LET found == findById(canvas_designs, id)
    IN  IF found = {}
        THEN /\ res' = response("deleteCanvas", userId, id, 404, NoData)
             /\ UNCHANGED <<canvas_designs, canvas_access, comments, connected, now, aux>>
        ELSE IF ~hasAccess(canvas_access, id, userId, "editor")
        THEN /\ res' = response("deleteCanvas", userId, id, 403, NoData)
             /\ UNCHANGED <<canvas_designs, canvas_access, comments, connected, now, aux>>
        ELSE LET r == delete(canvas_designs, canvas_access, id)
             IN  /\ canvas_designs' = r.designs
                 /\ canvas_access' = r.access
                 /\ res' = response("deleteCanvas", userId, id, 200, NoData)
                 /\ UNCHANGED <<comments, connected, now, aux>>

saveCanvas(id, userId, designData, metadata) ==
    IF designDataMissing(designData) \/ designDataInvalid(designData)
    THEN /\ res' = response("saveCanvas", userId, id, 400, NoData)
         /\ UNCHANGED <<canvas_designs, canvas_access, comments, connected, now, aux>>
    ELSE IF notConnected THEN serverError("saveCanvas", userId, id)
    ELSE LET r == save(canvas_designs, canvas_access, id, userId, designData, metadata)
         IN  /\ canvas_designs' = r.designs
             /\ canvas_access' = r.access
             /\ res' = response("saveCanvas", userId, id, 201, NoData)
             /\ UNCHANGED <<comments, connected, now, aux>>

getCanvas(id, userId) ==
    IF notConnected THEN serverError("getCanvas", userId, id) ELSE
    LET found == findById(canvas_designs, id)
    IN  IF found = {}
        THEN /\ res' = response("getCanvas", userId, id, 404, NoData)
             /\ UNCHANGED <<canvas_designs, canvas_access, comments, connected, now, aux>>
        ELSE LET canvas == CHOOSE d \in found : TRUE
                 chk == checkAccessSelfHeal(canvas_access, canvas, id, userId, "viewer")
             IN  /\ canvas_access' = chk.access
                 /\ res' = IF ~chk.hasAccess
                           THEN response("getCanvas", userId, id, 403, NoData)
                           ELSE response("getCanvas", userId, id, 200, canvas.designData)
                 /\ UNCHANGED <<canvas_designs, comments, connected, now, aux>>

deleteCanvas(id, userId) ==
    IF notConnected THEN serverError("deleteCanvas", userId, id) ELSE
    LET found == findById(canvas_designs, id)
    IN  IF found = {}
        THEN /\ res' = response("deleteCanvas", userId, id, 404, NoData)
             /\ UNCHANGED <<canvas_designs, canvas_access, comments, connected, now, aux>>
        ELSE IF ~hasAccess(canvas_access, id, userId, "owner")
        THEN /\ res' = response("deleteCanvas", userId, id, 403, NoData)
             /\ UNCHANGED <<canvas_designs, canvas_access, comments, connected, now, aux>>
        ELSE LET r == delete(canvas_designs, canvas_access, id)
             IN  /\ canvas_designs' = r.designs
                 /\ canvas_access' = r.access
                 /\ res' = response("deleteCanvas", userId, id, 200, NoData)
                 /\ UNCHANGED <<comments, connected, now, aux>>

\* parseInt(req.query.limit) || 50 and parseInt(req.query.offset) || 0, with 0
\* for a parameter that is absent, not a number or zero
DefaultLimit == 50
listCanvases(userId, limitQuery, offsetQuery) ==
    IF notConnected THEN serverError("listCanvases", userId, "") ELSE
    LET limit == IF limitQuery = 0 THEN DefaultLimit ELSE limitQuery
        offset == offsetQuery
    IN  /\ \E r \in findUserAccessibleCanvases(canvas_designs, canvas_access, userId, limit, offset) :
               res' = [response("listCanvases", userId, "", 200, NoData) EXCEPT
                          !.list = r.data, !.total = r.total,
                          !.limit = limit, !.offset = offset]
        /\ UNCHANGED <<canvas_designs, canvas_access, comments, connected, now, aux>>

\* randomUUID() yields an id that no stored canvas has
createBlankCanvas(userId) ==
    IF notConnected THEN serverError("createBlankCanvas", userId, "") ELSE
    \E id \in CanvasIds :
        /\ userId \in Requesters(id)
        /\ findById(canvas_designs, id) = {}
        /\ LET r == createBlank(canvas_designs, canvas_access, id, userId)
           IN  /\ canvas_designs' = r.designs
               /\ canvas_access' = r.access
               /\ res' = response("createBlankCanvas", userId, id, 201, blankDesignData)
               /\ UNCHANGED <<comments, connected, now, aux>>

updateCanvas(id, userId, designData, metadata) ==
    IF notConnected THEN serverError("updateCanvas", userId, id) ELSE
    LET found == findById(canvas_designs, id)
    IN  IF found = {}
        THEN /\ res' = response("updateCanvas", userId, id, 404, NoData)
             /\ UNCHANGED <<canvas_designs, canvas_access, comments, connected, now, aux>>
        ELSE LET existingCanvas == CHOOSE d \in found : TRUE
                 chk == checkAccessSelfHeal(canvas_access, existingCanvas, id, userId, "editor")
             IN  IF ~chk.hasAccess
                 THEN /\ res' = response("updateCanvas", userId, id, 403, NoData)
                      /\ canvas_access' = chk.access
                      /\ UNCHANGED <<canvas_designs, comments, connected, now, aux>>
                 ELSE IF designDataMissing(designData) \/ designDataInvalid(designData)
                 THEN /\ res' = response("updateCanvas", userId, id, 400, NoData)
                      /\ canvas_access' = chk.access
                      /\ UNCHANGED <<canvas_designs, comments, connected, now, aux>>
                 ELSE LET r == save(canvas_designs, chk.access, id, userId, designData, metadata)
                      IN  /\ canvas_designs' = r.designs
                          /\ canvas_access' = r.access
                          /\ res' = response("updateCanvas", userId, id, 200, NoData)
                          /\ UNCHANGED <<comments, connected, now, aux>>

\* canvasId and userId come from the request body; "" stands for a missing field
shareCanvas(canvasId, userId, currentUserId) ==
    IF canvasId = "" \/ userId = ""
    THEN /\ res' = response("shareCanvas", currentUserId, canvasId, 400, NoData)
         /\ UNCHANGED <<canvas_designs, canvas_access, comments, connected, now, aux>>
    ELSE IF notConnected THEN serverError("shareCanvas", currentUserId, canvasId)
    ELSE LET found == findById(canvas_designs, canvasId)
         IN  IF found = {}
             THEN /\ res' = response("shareCanvas", currentUserId, canvasId, 404, NoData)
                  /\ UNCHANGED <<canvas_designs, canvas_access, comments, connected, now, aux>>
             ELSE LET canvas == CHOOSE d \in found : TRUE
                      chk == checkAccessSelfHeal(canvas_access, canvas, canvasId, currentUserId, "editor")
                  IN  /\ UNCHANGED <<canvas_designs, comments, connected, now, aux>>
                      /\ IF ~chk.hasAccess
                         THEN /\ res' = response("shareCanvas", currentUserId, canvasId, 403, NoData)
                              /\ canvas_access' = chk.access
                         ELSE /\ canvas_access' = grantAccess(chk.access, canvasId, userId, "editor", currentUserId)
                              /\ res' = response("shareCanvas", currentUserId, canvasId, 200, NoData)

\* the loop leaving at the first entry that fails
RECURSIVE shareLoop_abort(_, _, _, _, _, _)
shareLoop_abort(access, canvasId, userIds, role, currentUserId, i) ==
    IF i > Len(userIds)
    THEN [access |-> access, results |-> <<>>, errors |-> <<>>]
    ELSE LET userId == userIds[i]
         IN  IF userLookup(userId) # "found"
             THEN [access |-> access, results |-> <<>>, errors |-> <<userId>>]
             ELSE LET rest == shareLoop_abort(grantAccess(access, canvasId, userId, role, currentUserId),
                                              canvasId, userIds, role, currentUserId, i + 1)
                  IN  [access  |-> rest.access,
                       results |-> <<userId>> \o rest.results,
                       errors  |-> rest.errors]

\* the for loop of shareCanvasWithMultipleUsers from index i on: the grants it
\* stores and the entries it pushes to results and errors
RECURSIVE shareLoop(_, _, _, _, _, _)
shareLoop(access, canvasId, userIds, role, currentUserId, i) ==
    IF i > Len(userIds)
    THEN [access |-> access, results |-> <<>>, errors |-> <<>>]
    ELSE LET userId == userIds[i]
             granted == userLookup(userId) = "found"
             rest == shareLoop(IF granted
                               THEN grantAccess(access, canvasId, userId, role, currentUserId)
                               ELSE access,
                               canvasId, userIds, role, currentUserId, i + 1)
         IN  [access  |-> rest.access,
              results |-> IF granted THEN <<userId>> \o rest.results ELSE rest.results,
              errors  |-> IF granted THEN rest.errors ELSE <<userId>> \o rest.errors]

\* userIds is the array of the request body (<<>> also stands for a missing or
\* non-array field); role is the body's role, 'editor' when the body has none
shareCanvasWithMultipleUsers(canvasId, userIds, role, currentUserId) ==
    IF canvasId = "" \/ Len(userIds) = 0
    THEN /\ res' = response("shareCanvasWithMultipleUsers", currentUserId, canvasId, 400, NoData)
         /\ UNCHANGED <<canvas_designs, canvas_access, comments, connected, now, aux>>
    ELSE IF role \notin {"owner", "editor", "viewer"}
    THEN /\ res' = response("shareCanvasWithMultipleUsers", currentUserId, canvasId, 400, NoData)
         /\ UNCHANGED <<canvas_designs, canvas_access, comments, connected, now, aux>>
    ELSE IF notConnected
    THEN serverError("shareCanvasWithMultipleUsers", currentUserId, canvasId)
    ELSE IF findById(canvas_designs, canvasId) = {}
    THEN /\ res' = response("shareCanvasWithMultipleUsers", currentUserId, canvasId, 404, NoData)
         /\ UNCHANGED <<canvas_designs, canvas_access, comments, connected, now, aux>>
    ELSE IF ~hasAccess(canvas_access, canvasId, currentUserId, "editor")
    THEN /\ res' = response("shareCanvasWithMultipleUsers", currentUserId, canvasId, 403, NoData)
         /\ UNCHANGED <<canvas_designs, canvas_access, comments, connected, now, aux>>
    ELSE LET r == shareLoop(canvas_access, canvasId, userIds, role, currentUserId, 1)
         IN  /\ canvas_access' = r.access
             /\ res' = [response("shareCanvasWithMultipleUsers", currentUserId, canvasId, 200, NoData)
                        EXCEPT !.successful = r.results, !.failed = r.errors,
                               !.totalProcessed = Len(userIds)]
             /\ UNCHANGED <<canvas_designs, comments, connected, now, aux>>

\* id, authorId, timestamp and text come from the request body; "" and 0 stand
\* for a missing field
\* saveComment that asks for the editor level
saveComment_editorGate(canvasId, userId, id, authorId, timestamp, text) ==
    IF id = "" \/ authorId = "" \/ timestamp = 0 \/ text = ""
    THEN /\ res' = response("saveComment", userId, canvasId, 400, NoData)
         /\ UNCHANGED <<canvas_designs, canvas_access, comments, connected, now, aux>>
    ELSE IF notConnected THEN serverError("saveComment", userId, canvasId)
    ELSE IF findById(canvas_designs, canvasId) = {}
    THEN /\ res' = response("saveComment", userId, canvasId, 404, NoData)
         /\ UNCHANGED <<canvas_designs, canvas_access, comments, connected, now, aux>>
    ELSE IF ~hasAccess(canvas_access, canvasId, userId, "editor")
    THEN /\ res' = response("saveComment", userId, canvasId, 403, NoData)
         /\ UNCHANGED <<canvas_designs, canvas_access, comments, connected, now, aux>>
    ELSE /\ comments' = CommentModel_saveComment(comments, canvasId, id, authorId, timestamp, text)
         /\ res' = [response("saveComment", userId, canvasId, 201, NoData)
                     EXCEPT !.list = <<commentDoc(canvasId, id, authorId, timestamp, text)>>]
         /\ UNCHANGED <<canvas_designs, canvas_access, connected, now, aux>>

saveComment(canvasId, userId, id, authorId, timestamp, text) ==
    IF id = "" \/ authorId = "" \/ timestamp = 0 \/ text = ""
    THEN /\ res' = response("saveComment", userId, canvasId, 400, NoData)
         /\ UNCHANGED <<canvas_designs, canvas_access, comments, connected, now, aux>>
    ELSE IF notConnected THEN serverError("saveComment", userId, canvasId)
    ELSE IF findById(canvas_designs, canvasId) = {}
    THEN /\ res' = response("saveComment", userId, canvasId, 404, NoData)
         /\ UNCHANGED <<canvas_designs, canvas_access, comments, connected, now, aux>>
    ELSE IF ~hasAccess(canvas_access, canvasId, userId, "viewer")
    THEN /\ res' = response("saveComment", userId, canvasId, 403, NoData)
         /\ UNCHANGED <<canvas_designs, canvas_access, comments, connected, now, aux>>
    ELSE /\ comments' = CommentModel_saveComment(comments, canvasId, id, authorId, timestamp, text)
         /\ res' = [response("saveComment", userId, canvasId, 201, NoData)
                     EXCEPT !.list = <<commentDoc(canvasId, id, authorId, timestamp, text)>>]
         /\ UNCHANGED <<canvas_designs, canvas_access, connected, now, aux>>

\* getComments that checks access before existence
getComments_accessFirst(canvasId, userId) ==
    IF notConnected THEN serverError("getComments", userId, canvasId) ELSE
    /\ res' = IF ~hasAccess(canvas_access, canvasId, userId, "viewer")
              THEN response("getComments", userId, canvasId, 403, NoData)
              ELSE IF findById(canvas_designs, canvasId) = {}
              THEN response("getComments", userId, canvasId, 404, NoData)
              ELSE response("getComments", userId, canvasId, 200, NoData)
    /\ UNCHANGED <<canvas_designs, canvas_access, comments, connected, now, aux>>

getComments(canvasId, userId) ==
    IF notConnected THEN serverError("getComments", userId, canvasId) ELSE
    /\ IF findById(canvas_designs, canvasId) = {}
       THEN res' = response("getComments", userId, canvasId, 404, NoData)
       ELSE IF ~hasAccess(canvas_access, canvasId, userId, "viewer")
       THEN res' = response("getComments", userId, canvasId, 403, NoData)
       ELSE \E list \in sortByTimestamp(getCommentsByCanvasId(comments, canvasId)) :
               res' = [response("getComments", userId, canvasId, 200, NoData)
                       EXCEPT !.list = list, !.total = Len(list)]
    /\ UNCHANGED <<canvas_designs, canvas_access, comments, connected, now, aux>>

\* createBlankCanvas when insertOne has stored the canvas and the awaited
\* grantAccess then rejects (a store error): createBlank throws and the
\* handler's catch answers 500
createBlankCanvasGrantFails(userId) ==
    /\ ~notConnected
    /\ \E id \in CanvasIds :
        /\ userId \in Requesters(id)
        /\ findById(canvas_designs, id) = {}
        /\ canvas_designs' = createBlank(canvas_designs, canvas_access, id, userId).designs
        /\ res' = response("createBlankCanvas", userId, id, 500, NoData)
        /\ UNCHANGED <<canvas_access, comments, connected, now, aux>>

\* saveCanvas of a new id when replaceOne has stored the canvas and the
\* awaited grantAccess then rejects: save throws and the handler answers 500
saveCanvasGrantFails(id, userId, designData, metadata) ==
    /\ ~notConnected
    /\ ~(designDataMissing(designData) \/ designDataInvalid(designData))
    /\ findById(canvas_designs, id) = {}
    /\ canvas_designs' = save(canvas_designs, canvas_access, id, userId, designData, metadata).designs
    /\ res' = response("saveCanvas", userId, id, 500, NoData)
    /\ UNCHANGED <<canvas_access, comments, connected, now, aux>>

\* canvasModel.save step by step, for saves that run concurrently: the call
\* builds canvasDesign, then awaits findOne (isNewCanvas), replaceOne and,
\* for a new canvas, grantAccess.  firstTime notes that no canvas of the id
\* was stored when the request was issued.
saveCall(p, id, userId, designData, metadata) ==
    /\ inflight[p].pc \in {"none", "done"}
    /\ IF notConnected
       THEN /\ res' = response("saveCall", userId, id, 500, NoData)
            /\ UNCHANGED inflight
       ELSE /\ inflight' = [inflight EXCEPT ![p] =
                               [op |-> "save", pc |-> "findOne", id |-> id, userId |-> userId,
                                canvasDesign |-> canvasDoc(id, userId, designData,
                                                           createdAtOr(metadata, now), now),
                                isNewCanvas |-> FALSE,
                                firstTime |-> findById(canvas_designs, id) = {}]]
            /\ res' = response("saveCall", userId, id, 0, NoData)
    /\ UNCHANGED <<canvas_designs, canvas_access, comments, connected, now, startup>>

saveFindOne(p) ==
    /\ inflight[p].op = "save" /\ inflight[p].pc = "findOne"
    /\ inflight' = [inflight EXCEPT ![p].pc = "replaceOne",
                                    ![p].isNewCanvas = findById(canvas_designs, inflight[p].id) = {}]
    /\ res' = response("saveFindOne", inflight[p].userId, inflight[p].id, 0, NoData)
    /\ UNCHANGED <<canvas_designs, canvas_access, comments, connected, now, startup>>

saveReplaceOne(p) ==
    /\ inflight[p].op = "save" /\ inflight[p].pc = "replaceOne"
    /\ canvas_designs' = replaceOne(canvas_designs, inflight[p].canvasDesign)
    /\ inflight' = [inflight EXCEPT ![p].pc = IF inflight[p].isNewCanvas THEN "grantAccess" ELSE "done"]
    /\ res' = response("saveReplaceOne", inflight[p].userId, inflight[p].id, 0, NoData)
    /\ UNCHANGED <<canvas_access, comments, connected, now, startup>>

saveGrantAccess(p) ==
    /\ inflight[p].op = "save" /\ inflight[p].pc = "grantAccess"
    /\ canvas_access' = grantAccess(canvas_access, inflight[p].id, inflight[p].userId,
                                    "owner", inflight[p].userId)
    /\ inflight' = [inflight EXCEPT ![p].pc = "done"]
    /\ res' = response("saveGrantAccess", inflight[p].userId, inflight[p].id, 0, NoData)
    /\ UNCHANGED <<canvas_designs, comments, connected, now, startup>>

\* shareCanvas in two steps, for requests that run concurrently.  The first
\* step is the handler up to its access check, self-heal included; a request
\* that passes then awaits grantAccess for the target, carried out by the
\* second step.
shareCheck(p, canvasId, userId, currentUserId) ==
    /\ inflight[p].pc \in {"none", "done"}
    /\ IF canvasId = "" \/ userId = ""
       THEN /\ res' = response("shareCanvas", currentUserId, canvasId, 400, NoData)
            /\ UNCHANGED <<canvas_access, inflight>>
       ELSE IF notConnected
       THEN /\ res' = response("shareCanvas", currentUserId, canvasId, 500, NoData)
            /\ UNCHANGED <<canvas_access, inflight>>
       ELSE LET found == findById(canvas_designs, canvasId)
            IN  IF found = {}
                THEN /\ res' = response("shareCanvas", currentUserId, canvasId, 404, NoData)
                     /\ UNCHANGED <<canvas_access, inflight>>
                ELSE LET canvas == CHOOSE d \in found : TRUE
                         chk == checkAccessSelfHeal(canvas_access, canvas, canvasId,
                                                    currentUserId, "editor")
                     IN  /\ canvas_access' = chk.access
                         /\ IF ~chk.hasAccess
                            THEN /\ res' = response("shareCanvas", currentUserId, canvasId, 403, NoData)
                                 /\ UNCHANGED inflight
                            ELSE /\ inflight' = [inflight EXCEPT ![p] =
                                                    [op |-> "shareCanvas", pc |-> "grantAccess",
                                                     canvasId |-> canvasId, userId |-> userId,
                                                     currentUserId |-> currentUserId]]
                                 /\ res' = response("shareCheck", currentUserId, canvasId, 0, NoData)
    /\ UNCHANGED <<canvas_designs, comments, connected, now, startup>>

shareGrant(p) ==
    /\ inflight[p].op = "shareCanvas" /\ inflight[p].pc = "grantAccess"
    /\ canvas_access' = grantAccess(canvas_access, inflight[p].canvasId, inflight[p].userId,
                                    "editor", inflight[p].currentUserId)
    /\ inflight' = [inflight EXCEPT ![p].pc = "done"]
    /\ res' = response("shareCanvas", inflight[p].currentUserId, inflight[p].canvasId, 200, NoData)
    /\ UNCHANGED <<canvas_designs, comments, connected, now, startup>>

\* updateCanvas up to its validation, for requests that run concurrently: a
\* request that passes the existence check, the access check and the body
\* validation then awaits canvasModel.save, which runs as saveFindOne,
\* saveReplaceOne and saveGrantAccess
updateCheck(p, id, userId, designData, metadata) ==
    /\ inflight[p].pc \in {"none", "done"}
    /\ IF notConnected
       THEN /\ res' = response("updateCanvas", userId, id, 500, NoData)
            /\ UNCHANGED <<canvas_access, inflight>>
       ELSE LET found == findById(canvas_designs, id)
            IN  IF found = {}
                THEN /\ res' = response("updateCanvas", userId, id, 404, NoData)
                     /\ UNCHANGED <<canvas_access, inflight>>
                ELSE LET existingCanvas == CHOOSE d \in found : TRUE
                         chk == checkAccessSelfHeal(canvas_access, existingCanvas, id, userId, "editor")
                     IN  /\ canvas_access' = chk.access
                         /\ IF ~chk.hasAccess
                            THEN /\ res' = response("updateCanvas", userId, id, 403, NoData)
                                 /\ UNCHANGED inflight
                            ELSE IF designDataMissing(designData) \/ designDataInvalid(designData)
                            THEN /\ res' = response("updateCanvas", userId, id, 400, NoData)
                                 /\ UNCHANGED inflight
                            ELSE /\ inflight' = [inflight EXCEPT ![p] =
                                        [op |-> "save", pc |-> "findOne", id |-> id, userId |-> userId,
                                         canvasDesign |-> canvasDoc(id, userId, designData,
                                                                    createdAtOr(metadata, now), now),
                                         isNewCanvas |-> FALSE,
                                         firstTime |-> FALSE,
                                         handler |-> "updateCanvas"]]
                                 /\ res' = response("updateCheck", userId, id, 0, NoData)
    /\ UNCHANGED <<canvas_designs, comments, connected, now, startup>>

\* grantAccess in two steps, for calls that run concurrently.  The call
\* builds the access document, grantedAt: new Date() included, and awaits
\* replaceOne; the store then carries the write out as one step.
\* grantAccess called with its optional expiresAt argument (<<>> when it is
\* undefined): the document carries the field
accessDocUntil(canvasId, userId, role, grantedBy, expiresAt) ==
    [_id |-> canvasId \o "-" \o userId, canvasId |-> canvasId, userId |-> userId,
     role |-> role, grantedBy |-> grantedBy, grantedAt |-> now, expiresAt |-> expiresAt]

grantAccessUntil(canvasId, userId, role, grantedBy, expiresAt) ==
    IF notConnected THEN serverError("grantAccess", userId, canvasId) ELSE
    /\ canvas_access' = replaceOne(canvas_access,
                                   accessDocUntil(canvasId, userId, role, grantedBy, expiresAt))
    /\ res' = response("grantAccess", userId, canvasId, 0, NoData)
    /\ UNCHANGED <<canvas_designs, comments, connected, now, aux>>

\* canvasAccessModel.hasAccess(canvasId, userId, requiredRole) and its result
hasAccessCall(canvasId, userId, requiredRole) ==
    IF notConnected THEN serverError("hasAccess", userId, canvasId) ELSE
    /\ res' = [requiredRole |-> requiredRole,
               permitted |-> hasAccess(canvas_access, canvasId, userId, requiredRole)]
              @@ response("hasAccess", userId, canvasId, 0, NoData)
    /\ UNCHANGED <<canvas_designs, canvas_access, comments, connected, now, aux>>

grantAccessCall(p, canvasId, userId, role, grantedBy) ==
    /\ inflight[p].pc \in {"none", "done"}
    /\ IF notConnected
       THEN /\ res' = response("grantAccessCall", userId, canvasId, 500, NoData)
            /\ UNCHANGED inflight
       ELSE /\ inflight' = [inflight EXCEPT ![p] =
                               [op |-> "grantAccess", pc |-> "replaceOne",
                                access |-> accessDoc(canvasId, userId, role, grantedBy)]]
            /\ res' = response("grantAccessCall", userId, canvasId, 0, NoData)
    /\ UNCHANGED <<canvas_designs, canvas_access, comments, connected, now, startup>>

grantAccessWrite(p) ==
    /\ inflight[p].op = "grantAccess" /\ inflight[p].pc = "replaceOne"
    /\ canvas_access' = replaceOne(canvas_access, inflight[p].access)
    /\ inflight' = [inflight EXCEPT ![p].pc = "done"]
    /\ res' = response("grantAccessWrite", inflight[p].access.userId,
                       inflight[p].access.canvasId, 0, NoData)
    /\ UNCHANGED <<canvas_designs, comments, connected, now, startup>>

\* CanvasAccessModel.revokeAccess called on the store; no handler wraps it, and
\* status 500 stands for the error it throws
revoke(canvasId, userId) ==
    IF notConnected THEN serverError("revokeAccess", userId, canvasId) ELSE
    /\ canvas_access' = revokeAccess(canvas_access, canvasId, userId)
    /\ res' = [response("revokeAccess", userId, canvasId, 0, NoData)
                EXCEPT !.deleted = revokedCount(canvas_access, canvas_access') > 0]
    /\ UNCHANGED <<canvas_designs, comments, connected, now, aux>>

\* CanvasDesignModel.saveYjsState and loadYjsState called on the store; no
\* handler wraps them, and status 500 stands for the error they throw
saveYjsState(canvasId, yjsState) ==
    IF notConnected THEN serverError("saveYjsState", "", canvasId) ELSE
    /\ canvas_designs' = CanvasDesignModel_saveYjsState(canvas_designs, canvasId, yjsState)
    /\ res' = response("saveYjsState", "", canvasId, 0, NoData)
    /\ UNCHANGED <<canvas_access, comments, connected, now, aux>>

loadYjsState(canvasId) ==
    IF notConnected THEN serverError("loadYjsState", "", canvasId) ELSE
    /\ res' = [response("loadYjsState", "", canvasId, 0, NoData) EXCEPT
                  !.yjsState = CanvasDesignModel_loadYjsState(canvas_designs, canvasId)]
    /\ UNCHANGED <<canvas_designs, canvas_access, comments, connected, now, aux>>

\* the query methods of the models called on the store: status 0 stands for a
\* returned value (a boolean, a document or null, an array), status 500 for
\* the error thrown
StoreQueries ==
    {"hasAccess", "getCanvasAccess", "getUserAccess", "getUserCanvases",
     "findById", "getCommentsByCanvasId"}
storeQuery(op, canvasId, userId) ==
    IF notConnected THEN serverError(op, userId, canvasId) ELSE
    /\ res' = response(op, userId, canvasId, 0, NoData)
    /\ UNCHANGED <<canvas_designs, canvas_access, comments, connected, now, aux>>

\* time passes: a later new Date() yields a later value
tick ==
    /\ now < MaxTime
    /\ now' = now + 1
    /\ res' = response("tick", "", "", 0, NoData)
    /\ UNCHANGED <<canvas_designs, canvas_access, comments, connected, aux>>

-----------------------------------------------------------------------------
(* Specification *)

\* the userIds arrays of bulk share requests, over the registered users and an
\* id that has no user document
TargetIds == Users \cup {GhostUser}
TargetLists == UNION {[1..n -> TargetIds] : n \in 1..MaxTargets}

\* the bodies of bulk share requests: well-formed ones, one whose first id is
\* not an ObjectId, and one for each validation failure (no canvasId, empty
\* userIds, unknown role)
BulkBodies ==
    {<<id, l, r>> : id \in SharedIds, l \in TargetLists, r \in Roles}
    \cup {<<"a", <<MalformedUser, "u2">>, "viewer">>}
    \cup {<<"", <<"u2">>, "editor">>, <<"a", <<>>, "editor">>, <<"a", <<"u2">>, "admin">>}

\* the bulk share bodies with at most one target (SpecBulk takes them all)
ShortBulkBodies == {b \in BulkBodies : Len(b[2]) <= 1}

\* the bodies of comment requests: well-formed ones and one without text
\* commentModel.deleteComment(canvasId, commentId): true when a document was
\* deleted
deleteComment(canvasId, commentId) ==
    IF notConnected THEN serverError("deleteComment", "", canvasId) ELSE
    /\ comments' = CommentModel_deleteComment(comments, canvasId, commentId)
    /\ res' = [response("deleteComment", "", canvasId, 0, NoData)
                EXCEPT !.deleted = comments' # comments]
    /\ UNCHANGED <<canvas_designs, canvas_access, connected, now, aux>>

CommentBodies ==
    {<<c, "u1", 1, "text">> : c \in CommentIds} \cup {<<"c1", "u1", 1, "">>}

Next ==
    \/ connectDatabase
    \/ \E id \in CanvasIds, d \in DesignDataInputs : \E u \in Requesters(id) :
            saveCanvas(id, u, d, NoMetadata)
    \/ \E id \in CanvasIds : \E u \in Requesters(id) : getCanvas(id, u)
    \/ \E id \in CanvasIds : \E u \in Requesters(id) : deleteCanvas(id, u)
    \/ \E u \in Users : createBlankCanvas(u)
    \/ \E id \in CanvasIds, d \in DesignDataInputs : \E u \in Requesters(id) :
            updateCanvas(id, u, d, NoMetadata)
    \/ \E id \in SharedIds \cup {""}, t \in Users \cup {""}, u \in Users : shareCanvas(id, t, u)
    \/ \E b \in ShortBulkBodies, u \in Users : shareCanvasWithMultipleUsers(b[1], b[2], b[3], u)
    \/ \E id \in SharedIds, u \in Users, b \in CommentBodies :
          saveComment(id, u, b[1], b[2], b[3], b[4])
    \/ \E id \in SharedIds, u \in Users : getComments(id, u)
    \/ \E id \in SharedIds, u \in Users : revoke(id, u)

Spec == Init /\ [][Next]_vars

\* Sharing with arbitrary target strings.  shareCanvas stores req.body.userId
\* without looking the user up, so the target may be any string; CollidingUser
\* is one for which `${canvasId}-${userId}` of canvas "a" equals the _id of
\* the grant of "u1" on canvas "a-b".
CollidingUser == "b-u1"
ShareTargets == Users \cup {CollidingUser}
OneDesign == CHOOSE d \in ValidDesignData : d.objects.items = <<>>

NextShare ==
    \/ connectDatabase
    \/ \E id \in CanvasIds, u \in Users : saveCanvas(id, u, OneDesign, NoMetadata)
    \/ \E id \in CanvasIds, u \in Users : getCanvas(id, u)
    \/ \E id \in CanvasIds, t \in ShareTargets, u \in Users : shareCanvas(id, t, u)

SpecShare == Init /\ [][NextShare]_vars

\* Bulk sharing of canvas "a": every body of BulkBodies by every user, next to
\* the saves that create the canvas and the single share.
NextBulk ==
    \/ connectDatabase
    \/ \E id \in SharedIds, u \in Users : saveCanvas(id, u, OneDesign, NoMetadata)
    \/ \E id \in SharedIds, t \in Users, u \in Users : shareCanvas(id, t, u)
    \/ \E b \in BulkBodies, u \in Users : shareCanvasWithMultipleUsers(b[1], b[2], b[3], u)

SpecBulk == Init /\ [][NextBulk]_vars

\* Every store operation and every handler on canvas "a", before and after
\* the database is connected.
NextStore ==
    \/ connectDatabase
    \/ \E op \in StoreQueries, id \in SharedIds, u \in Users : storeQuery(op, id, u)
    \/ \E id \in SharedIds, u \in Users, d \in {OneDesign, NoData} : saveCanvas(id, u, d, NoMetadata)
    \/ \E id \in SharedIds, u \in Users : getCanvas(id, u)
    \/ \E u \in Users : listCanvases(u, 0, 0)
    \/ \E id \in SharedIds, u \in Users : deleteCanvas(id, u)
    \/ \E u \in Users : createBlankCanvas(u)
    \/ \E id \in SharedIds, u \in Users, d \in {OneDesign, NoData} : updateCanvas(id, u, d, NoMetadata)
    \/ \E id \in SharedIds, t \in Users \cup {""}, u \in Users : shareCanvas(id, t, u)
    \/ \E b \in ShortBulkBodies, u \in Users : shareCanvasWithMultipleUsers(b[1], b[2], b[3], u)
    \/ \E id \in SharedIds, u \in Users, b \in CommentBodies : saveComment(id, u, b[1], b[2], b[3], b[4])
    \/ \E id \in SharedIds, u \in Users : getComments(id, u)
    \/ \E id \in SharedIds, u \in Users : revoke(id, u)
    \/ \E id \in SharedIds : saveYjsState(id, <<>>)
    \/ \E id \in SharedIds : loadYjsState(id)

SpecStore == Init /\ [][NextStore]_vars

\* Startup: connectDatabase step by step, called any number of times, with
\* every awaited call free to succeed or fail, next to requests that show
\* whether the store answers.
NextConnect ==
    \/ connectDatabaseCall
    \/ attemptStepSucceeds
    \/ attemptStepFails
    \/ nextAttempt
    \/ \E op \in StoreQueries, u \in Users : startup.pc = 0 /\ storeQuery(op, "a", u)
    \/ \E u \in Users : startup.pc = 0 /\ saveCanvas("a", u, OneDesign, NoMetadata)
    \/ \E u \in Users : startup.pc = 0 /\ getCanvas("a", u)

SpecConnect ==
    Init /\ [][NextConnect]_vars
         /\ WF_vars(attemptStepSucceeds \/ attemptStepFails \/ nextAttempt)

\* Comments over time: two canvases of u1, the role of u2 on canvas "a"
\* set by bulk shares and revocations, and comments of two client ids
\* submitted and re-submitted with different timestamps and texts.
MaxStamp == 2
CommentSubmissions ==
    {<<"a", "c1", ts, text>> : ts \in 1..MaxStamp, text \in {"text", "edit"}}
      \cup {<<"a", "c2", 1, "text">>}
      \cup {<<"a-b", "c1", 1, "text">>}

NextComments ==
    \/ connectDatabase
    \/ tick
    \/ \E id \in CanvasIds : findById(canvas_designs, id) = {} /\ saveCanvas(id, "u1", OneDesign, NoMetadata)
    \/ \E r \in Roles : shareCanvasWithMultipleUsers("a", <<"u2">>, r, "u1")
    \/ revoke("a", "u2")
    \/ \E b \in CommentSubmissions, u \in Users : saveComment(b[1], u, b[2], "u1", b[3], b[4])
    \/ \E id \in CanvasIds, u \in Users : getComments(id, u)

SpecComments == Init /\ [][NextComments]_vars

\* Concurrent grants: two requests granting roles on canvas "a", each in two
\* steps, in every interleaving, with time passing in between.
RequestUser == [p \in Procs |-> IF p = "p1" THEN "u1" ELSE "u2"]

NextGrantRace ==
    \/ connectDatabase
    \/ tick
    \/ \E p \in Procs, t \in Users, r \in Roles : grantAccessCall(p, "a", t, r, RequestUser[p])
    \/ \E p \in Procs : grantAccessWrite(p)

SpecGrantRace == Init /\ [][NextGrantRace]_vars

\* Creation whose grant step fails, and the requests that follow it.
NextRecover ==
    \/ connectDatabase
    \/ \E u \in Users : createBlankCanvas(u)
    \/ \E u \in Users : createBlankCanvasGrantFails(u)
    \/ \E id \in CanvasIds : \E u \in Requesters(id) : saveCanvasGrantFails(id, u, OneDesign, NoMetadata)
    \/ \E id \in CanvasIds : \E u \in Requesters(id) : getCanvas(id, u)
    \/ \E id \in CanvasIds : \E u \in Requesters(id) : updateCanvas(id, u, OneDesign, NoMetadata)
    \/ \E id \in CanvasIds, t \in Users : \E u \in Requesters(id) : shareCanvas(id, t, u)
    \/ \E u \in Users : listCanvases(u, 0, 0)

SpecRecover == Init /\ [][NextRecover]_vars

\* Concurrent saves: two requests of different users saving canvases step
\* by step, in every interleaving, with time passing in between.
NextSaveRace ==
    \/ connectDatabase
    \/ tick
    \/ \E p \in Procs, id \in CanvasIds : saveCall(p, id, RequestUser[p], OneDesign, NoMetadata)
    \/ \E p \in Procs : saveFindOne(p)
    \/ \E p \in Procs : saveReplaceOne(p)
    \/ \E p \in Procs : saveGrantAccess(p)

SpecSaveRace == Init /\ [][NextSaveRace]_vars

\* Deletion next to concurrent requests: canvas "a" is created, shared and
\* updated step by step by two concurrent requests while any user may ask
\* for its deletion between their steps.
NextDeleteRace ==
    \/ connectDatabase
    \/ saveCanvas("a", "u1", OneDesign, NoMetadata)
    \/ \E u \in Users : deleteCanvas("a", u)
    \/ \E p \in Procs, t \in Users : shareCheck(p, "a", t, RequestUser[p])
    \/ \E p \in Procs : shareGrant(p)
    \/ \E p \in Procs : updateCheck(p, "a", RequestUser[p], OneDesign, NoMetadata)
    \/ \E p \in Procs : saveFindOne(p)
    \/ \E p \in Procs : saveReplaceOne(p)
    \/ \E p \in Procs : saveGrantAccess(p)

SpecDeleteRace == Init /\ [][NextDeleteRace]_vars

\* Revocation: canvas "a" is created by u1 alone, u2 is granted editor by a
\* share and loses the grant by a revocation, and both users read, update,
\* share and comment.
NextRevoke ==
    \/ connectDatabase
    \/ findById(canvas_designs, "a") = {} /\ saveCanvas("a", "u1", OneDesign, NoMetadata)
    \/ \E u \in Users : getCanvas("a", u)
    \/ \E u \in Users : updateCanvas("a", u, OneDesign, NoMetadata)
    \/ \E u \in Users : shareCanvas("a", "u2", u)
    \/ \E u \in Users : saveComment("a", u, "c1", u, 1, "text")
    \/ \E u \in Users : getComments("a", u)
    \/ revoke("a", "u2")

SpecRevoke == Init /\ [][NextRevoke]_vars

\* Content, metadata and snapshot of canvas "a" over time: saves and updates
\* with and without metadata.createdAt, snapshot writes and reads, deletion,
\* and the clock.
\* comments on the canvases "a" and "a-b" by their creator, with client
\* comment ids that may contain '-'
DashedCommentIds == {"c1", "b-c1"}

NextInterfere ==
    \/ connectDatabase
    \/ \E id \in CanvasIds :
            /\ findById(canvas_designs, id) = {}
            /\ saveCanvas(id, "u1", OneDesign, NoMetadata)
    \/ \E id \in CanvasIds, c \in DashedCommentIds, t \in {"text", "edit"} :
            saveComment(id, "u1", c, "u1", 1, t)
    \/ \E id \in CanvasIds : getComments(id, "u1")
    \/ \E id \in CanvasIds, c \in DashedCommentIds : deleteComment(id, c)

SpecInterfere == Init /\ [][NextInterfere]_vars

\* grants with an expiry in the past, in the future or none, read by
\* hasAccess and by getCanvas while time passes
ExpiryInputs == {<<>>, <<0>>, <<MaxTime + 1>>}

NextExpiry ==
    \/ connectDatabase
    \/ tick
    \/ /\ findById(canvas_designs, "a") = {}
       /\ saveCanvas("a", "u1", OneDesign, NoMetadata)
    \/ \E r \in Roles, e \in ExpiryInputs : grantAccessUntil("a", "u2", r, "u1", e)
    \/ \E u \in Users, r \in Roles : hasAccessCall("a", u, r)
    \/ \E u \in Users : getCanvas("a", u)

SpecExpiry == Init /\ [][NextExpiry]_vars

NextContent ==
    \/ connectDatabase
    \/ tick
    \/ \E u \in Users : createBlankCanvas(u)
    \/ \E id \in SharedIds, u \in Users, m \in MetadataInputs : saveCanvas(id, u, OneDesign, m)
    \/ \E id \in SharedIds, u \in Users, d \in {OneDesign, NoData}, m \in MetadataInputs :
            updateCanvas(id, u, d, m)
    \/ \E id \in SharedIds, u \in Users : deleteCanvas(id, u)
    \/ \E id \in SharedIds, b \in Blobs : saveYjsState(id, b)
    \/ \E id \in SharedIds : loadYjsState(id)

SpecContent == Init /\ [][NextContent]_vars

\* Listing.  findUserAccessibleCanvases is a query on the two collections, so
\* it is applied to every store over the bounded domains: any canvases with
\* any userId and updatedAt, and any grants, those of deleted canvases too.
ListDesigns ==
    UNION {{ {canvasDoc(c, o[c], blankDesignData, 0, t[c]) : c \in ids} :
               o \in [ids -> Users], t \in [ids -> 0..MaxTime]} : ids \in SUBSET CanvasIds}
ListGrants ==
    UNION {{ {accessDoc(pr[1], pr[2], r[pr], pr[2]) : pr \in ps} :
               r \in [ps -> {"owner", "viewer"}]} : ps \in SUBSET (CanvasIds \X Users)}

InitList ==
    /\ now = MaxTime
    /\ canvas_designs \in ListDesigns
    /\ canvas_access \in ListGrants
    /\ comments = {}
    /\ connected = TRUE
    /\ startup = [notStarted EXCEPT !.isConnected = TRUE, !.done = ConnectSteps]
    /\ inflight = [p \in Procs |-> noCall]
    /\ res = response("none", "", "", 0, NoData)

NextList ==
    \E u \in Users, l \in 0..MaxLimit, o \in 0..MaxOffset : listCanvases(u, l, o)

SpecList == InitList /\ [][NextList]_vars

\* canvasModel.findAll(limit, 0), as the set of its possible pages: the first
\* `limit` documents in descending metadata.updatedAt order, the store
\* choosing among documents of equal updatedAt
findAll(designs, limit) ==
    LET newer(d) == {e \in designs : e.metadata.updatedAt > d.metadata.updatedAt}
        notOlder(d) == {e \in designs : e.metadata.updatedAt >= d.metadata.updatedAt}
        definite == {d \in designs : Cardinality(notOlder(d)) <= limit}
        boundary == {d \in designs : Cardinality(newer(d)) < limit} \ definite
    IN  {definite \cup T :
           T \in {S \in SUBSET boundary : Cardinality(definite) + Cardinality(S) = limit
                                          \/ (S = boundary /\ Cardinality(designs) <= limit)}}

\* canvasModel.findAll(1000, 0)
MigrationLimit == 1000

\* the body of the loop of migrateExistingCanvases for the canvases of one
\* updatedAt, one after the other
RECURSIVE migrateGroup(_, _)
migrateGroup(access, canvases) ==
    IF canvases = {} THEN access
    ELSE LET canvas == CHOOSE c \in canvases : TRUE
             existingAccess == {x \in access : x.userId = canvas.userId}
             hasAccessRecord == \E x \in existingAccess : x.canvasId = canvas._id
         IN  migrateGroup(IF ~hasAccessRecord
                          THEN grantAccess(access, canvas._id, canvas.userId, "owner", canvas.userId)
                          ELSE access,
                          canvases \ {canvas})

\* the loop over the canvases of the page whose updatedAt is in lo..hi, in
\* the order of the page: the later updatedAt first.  The test on granted
\* makes the grants left by the later canvases a value before the earlier
\* canvases are handled, as the awaited calls of the loop do.
RECURSIVE migrateRange(_, _, _, _)
migrateRange(access, canvases, lo, hi) ==
    IF canvases = {} \/ lo > hi THEN access
    ELSE IF lo = hi THEN migrateGroup(access, canvases)
    ELSE LET mid == (lo + hi) \div 2
             later == {c \in canvases : c.metadata.updatedAt > mid}
             granted == migrateRange(access, later, mid + 1, hi)
         IN  IF Cardinality(granted) >= 0
             THEN migrateRange(granted, canvases \ later, lo, mid)
             ELSE access

\* the loop of migrateExistingCanvases over the canvases of the page
migrateLoop(access, canvases) ==
    IF canvases = {} THEN access
    ELSE LET stamps == {c.metadata.updatedAt : c \in canvases}
             latest == CHOOSE t \in stamps : \A u \in stamps : u <= t
         IN  migrateRange(access, canvases, 0, latest)

migrateExistingCanvases ==
    IF notConnected THEN serverError("migrateExistingCanvases", "", "") ELSE
    \E canvases \in findAll(canvas_designs, MigrationLimit) :
       /\ canvas_access' = migrateLoop(canvas_access, canvases)
       /\ res' = [response("migrateExistingCanvases", "", "", 0, NoData)
                   EXCEPT !.total = Cardinality(canvas_access') - Cardinality(canvas_access)]
       /\ UNCHANGED <<canvas_designs, comments, connected, now, aux>>

\* Batch reconciliation, run from any small store of canvases and grants,
\* and from a store of canvases from before grants existed that holds one
\* canvas more than findAll is asked for.
Digit == <<"0", "1", "2", "3", "4", "5", "6", "7", "8", "9">>
LegacyId(n) ==
    "m" \o Digit[((n \div 1000) % 10) + 1] \o Digit[((n \div 100) % 10) + 1]
        \o Digit[((n \div 10) % 10) + 1] \o Digit[(n % 10) + 1]
LegacyStore ==
    {canvasDoc(LegacyId(n), "u1", blankDesignData, n, n) : n \in 1..(MigrationLimit + 1)}

InitMigrate ==
    /\ now = MaxTime
    /\ \E st \in (ListDesigns \X ListGrants) \cup {<<LegacyStore, {}>>} :
          canvas_designs = st[1] /\ canvas_access = st[2]
    /\ comments = {}
    /\ connected = TRUE
    /\ startup = [notStarted EXCEPT !.isConnected = TRUE, !.done = ConnectSteps]
    /\ inflight = [p \in Procs |-> noCall]
    /\ res = response("none", "", "", 0, NoData)

NextMigrate == migrateExistingCanvases

SpecMigrate == InitMigrate /\ [][NextMigrate]_vars

-----------------------------------------------------------------------------
(* Properties *)

\* the grants stored for a canvas, and the grants a user holds on it
GrantsOf(coll, canvasId) == {g \in coll : g.canvasId = canvasId}
Holds(coll, canvasId, userId, role) ==
    \E g \in coll : g.canvasId = canvasId /\ g.userId = userId /\ g.role = role
Exists(canvasId) == \E d \in canvas_designs : d._id = canvasId
OwnerOf(canvasId) == (CHOOSE d \in canvas_designs : d._id = canvasId).userId

\* C1: every existing canvas has an owner grant held by its userId, or the
\* access check of that user's next request stores one (self-heal).
C1_OwnerInvariant ==
    \A d \in canvas_designs :
        \/ Holds(canvas_access, d._id, d.userId, "owner")
        \/ Holds(checkAccessSelfHeal(canvas_access, d, d._id, d.userId, "viewer").access,
                 d._id, d.userId, "owner")

\* the rank of a role under the order owner > editor > viewer
C2_Rank(role) == CASE role = "owner" -> 3 [] role = "editor" -> 2 [] role = "viewer" -> 1

\* C2: hasAccess(c,u,r) holds exactly when a grant of (c,u) is stored whose
\* role ranks at least r; an owner passes every check, a viewer fails the
\* editor and owner checks, a user without a grant fails every check.
C2_HasAccessByRank ==
    \A c \in CanvasIds, u \in Users, r \in Roles :
        /\ hasAccess(canvas_access, c, u, r) <=>
              \E g \in canvas_access :
                  g.canvasId = c /\ g.userId = u /\ C2_Rank(g.role) >= C2_Rank(r)
        /\ Holds(canvas_access, c, u, "owner") => hasAccess(canvas_access, c, u, r)
        /\ Holds(canvas_access, c, u, "viewer") /\ r # "viewer" => ~hasAccess(canvas_access, c, u, r)
        /\ findAccess(canvas_access, c, u) = {} => ~hasAccess(canvas_access, c, u, r)

\* an update by a viewer was refused while another user holds owner and a third
\* pair has no grant
C2_Witness ==
    /\ res.op = "updateCanvas" /\ res.status = 403
    /\ Holds(canvas_access, res.id, res.userId, "viewer")
    /\ \E u \in Users : Holds(canvas_access, res.id, u, "owner")
    /\ \E c \in CanvasIds, u \in Users : findAccess(canvas_access, c, u) = {}

\* C3: when createBlank, or a save of an id that has no canvas, completes, the
\* canvas has exactly one grant: owner, held and granted by the requester.  A
\* save of an id whose canvas exists changes no grant.
C3_CreationGrant ==
    [][ /\ res'.op = "createBlankCanvas" /\ res'.status = 201 =>
            GrantsOf(canvas_access', res'.id) =
                {accessDoc(res'.id, res'.userId, "owner", res'.userId)}
        /\ res'.op = "saveCanvas" /\ res'.status = 201 =>
            IF Exists(res'.id)
            THEN canvas_access' = canvas_access
            ELSE GrantsOf(canvas_access', res'.id) =
                    {accessDoc(res'.id, res'.userId, "owner", res'.userId)}
      ]_vars

\* a first-time save has completed: the canvas belongs to the requester, whose
\* owner grant is its only grant
C3_Witness ==
    /\ res.op = "saveCanvas" /\ res.status = 201
    /\ Exists(res.id) /\ OwnerOf(res.id) = res.userId
    /\ GrantsOf(canvas_access, res.id) = {accessDoc(res.id, res.userId, "owner", res.userId)}

\* the handlers that check access to an existing canvas
AccessCheckedOps ==
    {"getCanvas", "updateCanvas", "shareCanvas", "shareCanvasWithMultipleUsers",
     "deleteCanvas", "saveComment", "getComments"}

\* C4: on a canvas with no grant record, every access-checked request of the
\* canvas's userId is permitted, and an owner grant of that user, granted by
\* that user, is stored when the request completes.
C4_SelfHealEverywhere ==
    [][ \A d \in canvas_designs :
          ( /\ GrantsOf(canvas_access, d._id) = {}
            /\ res'.op \in AccessCheckedOps
            /\ res'.id = d._id /\ res'.userId = d.userId
            /\ res'.status # 400 )
          => /\ res'.status # 403
             /\ \/ accessDoc(d._id, d.userId, "owner", d.userId) \in canvas_access'
                \/ res'.op = "deleteCanvas"
      ]_vars

\* C5: a delete that removes canvas c leaves no grant of c, so hasAccess on c
\* is false for everyone while c does not exist; a delete that removes no
\* canvas removes no grant.
C5_DeleteCascadesGrants ==
    /\ [](\A c \in CanvasIds : ~Exists(c) =>
             /\ GrantsOf(canvas_access, c) = {}
             /\ \A u \in Users, r \in Roles : ~hasAccess(canvas_access, c, u, r))
    /\ [][ res'.op = "deleteCanvas" =>
             IF res'.status = 200
             THEN /\ Exists(res'.id)
                  /\ findById(canvas_designs', res'.id) = {}
                  /\ GrantsOf(canvas_access', res'.id) = {}
                  /\ canvas_access \ canvas_access' = GrantsOf(canvas_access, res'.id)
             ELSE canvas_access' = canvas_access /\ canvas_designs' = canvas_designs
         ]_vars

\* canvas "a" was deleted together with its grants while canvas "a-b" and its
\* grant remain
C5_Witness ==
    /\ res.op = "deleteCanvas" /\ res.status = 200 /\ res.id = "a"
    /\ ~Exists("a") /\ GrantsOf(canvas_access, "a") = {}
    /\ Exists("a-b") /\ GrantsOf(canvas_access, "a-b") # {}

\* C6: a delete that removes canvas c leaves no comment of c.
C6_DeleteCascadesComments ==
    [][ res'.op = "deleteCanvas" /\ res'.status = 200 =>
          getCommentsByCanvasId(comments', res'.id) = {} ]_vars

\* C7: a delete request on an existing canvas by a user who holds editor or
\* viewer, or who holds no grant and is not the canvas's userId, is answered
\* 403 and changes no canvas, grant or comment; a delete request by a user
\* who holds owner removes the canvas.
C7_DeleteRequiresOwner ==
    [][ \A id \in CanvasIds, u \in Users :
          ( /\ res'.op = "deleteCanvas" /\ res'.id = id /\ res'.userId = u
            /\ Exists(id) ) =>
             /\ ( \/ Holds(canvas_access, id, u, "editor")
                  \/ Holds(canvas_access, id, u, "viewer")
                  \/ (findAccess(canvas_access, id, u) = {} /\ OwnerOf(id) # u) )
                => /\ res'.status = 403
                   /\ UNCHANGED <<canvas_designs, canvas_access, comments, connected, now, aux>>
             /\ Holds(canvas_access, id, u, "owner")
                => res'.status = 200 /\ findById(canvas_designs', id) = {}
      ]_vars

\* a delete by a user who holds editor was refused and the canvas is still there
C7_Witness ==
    /\ res.op = "deleteCanvas" /\ res.status = 403
    /\ Exists(res.id)
    /\ Holds(canvas_access, res.id, res.userId, "editor")
    /\ getCommentsByCanvasId(comments, res.id) # {}

\* C8: a save or update replaces the content of an existing canvas only if the
\* requester passes hasAccess(editor) when the request completes; a request by
\* a viewer, or by a user with no grant who is not the canvas's userId, is
\* answered 403 and leaves the canvas unchanged; a request of a user holding
\* editor with valid designData succeeds.
C8_WriteRequiresEditor ==
    [][ \A id \in CanvasIds, u \in Users, d \in DesignDataInputs :
          ( /\ res'.op \in {"saveCanvas", "updateCanvas"} /\ res'.id = id /\ res'.userId = u
            /\ (saveCanvas(id, u, d, NoMetadata) \/ updateCanvas(id, u, d, NoMetadata))
            /\ Exists(id) ) =>
             /\ findById(canvas_designs', id) # findById(canvas_designs, id)
                => hasAccess(canvas_access', id, u, "editor")
             /\ ( \/ Holds(canvas_access, id, u, "viewer")
                  \/ (findAccess(canvas_access, id, u) = {} /\ OwnerOf(id) # u) )
                => res'.status = 403 /\ canvas_designs' = canvas_designs
             /\ Holds(canvas_access, id, u, "editor") /\ d \in ValidDesignData
                => /\ res'.status \in {200, 201}
                   /\ \E c \in canvas_designs' : c._id = id /\ c.designData = d
      ]_vars

\* C9: getCanvas answers 200 with the canvas's designData exactly when the
\* requester passes hasAccess(viewer), after the self-heal grant where the
\* requester is the canvas's userId; every other requester gets 403 and no
\* content.
C9_ReadRequiresViewer ==
    [][ \A id \in CanvasIds, u \in Users :
          ( /\ res'.op = "getCanvas" /\ res'.id = id /\ res'.userId = u
            /\ Exists(id) ) =>
             LET permitted == hasAccess(canvas_access, id, u, "viewer") \/ OwnerOf(id) = u
             IN  /\ permitted =>
                       /\ res'.status = 200
                       /\ \E c \in canvas_designs : c._id = id /\ res'.data = c.designData
                       /\ hasAccess(canvas_access', id, u, "viewer")
                 /\ ~permitted =>
                       /\ res'.status = 403 /\ res'.data = NoData
                       /\ canvas_access' = canvas_access
                 /\ res'.status = 200 => hasAccess(canvas_access', id, u, "viewer")
      ]_vars

\* a read by a user without a grant who is not the canvas's userId was refused
C9_Witness ==
    /\ res.op = "getCanvas" /\ res.status = 403 /\ res.data = NoData
    /\ Exists(res.id) /\ OwnerOf(res.id) # res.userId
    /\ findAccess(canvas_access, res.id, res.userId) = {}
    /\ GrantsOf(canvas_access, res.id) # {}

\* C10: share and bulk share change a grant only if the acting user passes
\* hasAccess(editor), after the self-heal grant for a canvas's userId who has
\* no grant; a request of a user holding editor is accepted; a request of a
\* viewer, or of a user with no grant who is not the canvas's userId, is
\* answered 403 and changes no grant.
C10_ShareRequiresEditor ==
    [][ \A id \in CanvasIds, u \in Users :
          ( /\ res'.op \in {"shareCanvas", "shareCanvasWithMultipleUsers"}
            /\ res'.id = id /\ res'.userId = u /\ Exists(id) /\ res'.status # 400 ) =>
             /\ canvas_access' # canvas_access =>
                  \/ hasAccess(canvas_access, id, u, "editor")
                  \/ (findAccess(canvas_access, id, u) = {} /\ OwnerOf(id) = u)
             /\ Holds(canvas_access, id, u, "editor") => res'.status = 200
             /\ ( \/ Holds(canvas_access, id, u, "viewer")
                  \/ (findAccess(canvas_access, id, u) = {} /\ OwnerOf(id) # u) )
                => res'.status = 403 /\ canvas_access' = canvas_access
      ]_vars

\* C11: at most one grant exists for each pair (canvasId, userId); a grant on
\* a pair that already has one replaces it, so that hasAccess reflects only
\* the latest role; and the grants of every other pair are unchanged.  Stated
\* on shareCanvas, which grants 'editor' to the target t and may self-heal the
\* requester: every grant of a pair other than these two is left as it was.
OtherPairs(coll, canvasId, userIds) ==
    {x \in coll : ~(x.canvasId = canvasId /\ x.userId \in userIds)}
C11_GrantTouchesOnlyItsPair ==
    [][ /\ \A x, y \in canvas_access' :
              (x.canvasId = y.canvasId /\ x.userId = y.userId) => x = y
        /\ (res'.op = "shareCanvas" /\ res'.status = 200) =>
              \E t \in ShareTargets :
                 /\ Holds(canvas_access', res'.id, t, "editor")
                 /\ OtherPairs(canvas_access', res'.id, {t, res'.userId})
                      = OtherPairs(canvas_access, res'.id, {t, res'.userId})
      ]_vars

\* C12: a listing of user U ranges over exactly the existing canvases on which
\* U holds a grant or whose userId is U: each appears once, no other canvas
\* appears, a grant of a canvas that does not exist adds no entry, total is
\* the size of that set whatever limit and offset are, and the page holds at
\* most limit entries (all of the set from offset on, up to limit).
AccessibleTo(userId) ==
    {c \in CanvasIds : Exists(c) /\ (findAccess(canvas_access, c, userId) # {} \/ OwnerOf(c) = userId)}
C12_ListingIsAccessibleSet ==
    (res.op = "listCanvases" /\ res.status = 200) =>
        LET S == AccessibleTo(res.userId)
            rest == IF Cardinality(S) > res.offset THEN Cardinality(S) - res.offset ELSE 0
        IN  /\ res.total = Cardinality(S)
            /\ Len(res.list) <= res.limit
            /\ Len(res.list) = IF rest < res.limit THEN rest ELSE res.limit
            /\ \A i \in DOMAIN res.list : res.list[i] \in S
            /\ \A i, j \in DOMAIN res.list : i # j => res.list[i] # res.list[j]

\* a canvas both owned and granted next to a grant of a missing canvas, listed
C12_Witness ==
    /\ res.op = "listCanvases" /\ res.status = 200
    /\ \E c \in CanvasIds :
          /\ Exists(c) /\ OwnerOf(c) = res.userId
          /\ findAccess(canvas_access, c, res.userId) # {}
          /\ res.list = <<c>>
    /\ \E g \in canvas_access : g.userId = res.userId /\ ~Exists(g.canvasId)
    /\ res.total = 1

\* C13: a save or update of an existing canvas whose request supplies no
\* metadata.createdAt leaves the stored metadata.createdAt as it was and sets
\* metadata.updatedAt to the time of the request.
CanvasOf(coll, id) == CHOOSE d \in coll : d._id = id
C13_CreatedAtPreserved ==
    [][ \A id \in SharedIds, u \in Users :
          ( /\ res'.op \in {"saveCanvas", "updateCanvas"} /\ res'.id = id /\ res'.userId = u
            /\ res'.status \in {200, 201}
            /\ Exists(id)
            /\ (saveCanvas(id, u, OneDesign, NoMetadata) \/ updateCanvas(id, u, OneDesign, NoMetadata)) )
          => /\ CanvasOf(canvas_designs', id).metadata.createdAt
                  = CanvasOf(canvas_designs, id).metadata.createdAt
             /\ CanvasOf(canvas_designs', id).metadata.updatedAt = now
      ]_vars

\* C14: snapshot round trip.  For an existing canvas, saveYjsState(id, blob)
\* followed by loadYjsState(id) with no other snapshot write in between gives
\* a byte sequence equal to blob, the empty blob included: right after the
\* write the load gives blob, and no step other than a snapshot write changes
\* what the load gives while the canvas exists.
C14_SnapshotRoundTrip ==
    [][ \A id \in SharedIds :
          /\ (res'.op = "saveYjsState" /\ res'.id = id /\ Exists(id)) =>
                \E b \in Blobs :
                   /\ saveYjsState(id, b)
                   /\ CanvasDesignModel_loadYjsState(canvas_designs', id) = <<b>>
          /\ ( /\ res'.op # "saveYjsState"
               /\ Exists(id) /\ findById(canvas_designs', id) # {} ) =>
                CanvasDesignModel_loadYjsState(canvas_designs', id)
                  = CanvasDesignModel_loadYjsState(canvas_designs, id)
      ]_vars

\* C15: the userId recorded on a canvas is its creator's for the canvas's
\* whole life: a successful save or update of an existing canvas, by whichever
\* user, leaves it unchanged.
C15_OwnerUserIdStable ==
    [][ ( /\ res'.op \in {"saveCanvas", "updateCanvas"}
          /\ res'.status \in {200, 201}
          /\ Exists(res'.id) )
        => CanvasOf(canvas_designs', res'.id).userId = CanvasOf(canvas_designs, res'.id).userId
      ]_vars

\* C16: a successful save or update of the designData of an existing canvas
\* that has a stored snapshot leaves yjsState and lastSaved unchanged, so that
\* loadYjsState gives the same blob afterwards.
C16_SnapshotIndependent ==
    [][ ( /\ res'.op \in {"saveCanvas", "updateCanvas"}
          /\ res'.status \in {200, 201}
          /\ Exists(res'.id)
          /\ CanvasOf(canvas_designs, res'.id).yjsState # <<>> )
        => /\ CanvasOf(canvas_designs', res'.id).yjsState = CanvasOf(canvas_designs, res'.id).yjsState
           /\ CanvasOf(canvas_designs', res'.id).lastSaved = CanvasOf(canvas_designs, res'.id).lastSaved
           /\ CanvasDesignModel_loadYjsState(canvas_designs', res'.id)
                = CanvasDesignModel_loadYjsState(canvas_designs, res'.id)
      ]_vars

\* C17: a save, update, share or bulk share request rejected with a validation
\* error (status 400) is never partially applied: canvases, grants and
\* comments are the same after the request as before it.
C17_ValidationErrorNoEffect ==
    [][ ( /\ res'.op \in {"saveCanvas", "updateCanvas", "shareCanvas",
                          "shareCanvasWithMultipleUsers"}
          /\ res'.status = 400 )
        => UNCHANGED <<canvas_designs, canvas_access, comments>>
      ]_vars

\* C18 as stated: a read, update, delete, share, bulk share or comment request
\* that names a canvas id with no existing canvas is answered 404, never 403,
\* and leaves the store unchanged (taken with the store connected).
CanvasNamingOps ==
    {"getCanvas", "updateCanvas", "deleteCanvas", "shareCanvas",
     "shareCanvasWithMultipleUsers", "saveComment", "getComments"}
BodyValidatedOps == {"shareCanvas", "shareCanvasWithMultipleUsers", "saveComment"}
C18_NotFoundAlways ==
    [][ ( /\ connected
          /\ res'.op \in CanvasNamingOps
          /\ res'.id \in CanvasIds /\ ~Exists(res'.id) )
        => /\ res'.status = 404
           /\ UNCHANGED <<canvas_designs, canvas_access, comments>>
      ]_vars

\* C18, amended: with the store connected, such a request is never answered
\* 403 and leaves the store unchanged; it is answered 404 unless it is a
\* share, bulk share or comment request whose body fails validation, which is
\* answered 400 before the canvas is looked up; every share, bulk share and
\* comment request with a well-formed body is answered 404.
C18_NotFoundBeforeForbidden ==
    [][ LET id == res'.id
            u == res'.userId
        IN
          ( /\ connected
            /\ res'.op \in CanvasNamingOps /\ id \in CanvasIds /\ u \in Users
            /\ ~Exists(id) )
          => /\ res'.status \in {404, 400}
             /\ res'.status = 400 => res'.op \in BodyValidatedOps
             /\ UNCHANGED <<canvas_designs, canvas_access, comments>>
             /\ res'.op = "shareCanvas" =>
                   \A t \in Users : shareCanvas(id, t, u) => res'.status = 404
             /\ res'.op = "shareCanvasWithMultipleUsers" =>
                   \A b \in BulkBodies :
                      ( /\ b[1] = id /\ Len(b[2]) > 0 /\ b[3] \in Roles
                        /\ shareCanvasWithMultipleUsers(b[1], b[2], b[3], u) )
                      => res'.status = 404
             /\ res'.op = "saveComment" =>
                   \A b \in CommentBodies :
                      (b[4] # "" /\ saveComment(id, u, b[1], b[2], b[3], b[4]))
                      => res'.status = 404
      ]_vars

\* a well-formed bulk share naming a missing canvas was answered 404 while
\* another canvas exists
C18_Witness ==
    /\ res.op = "shareCanvasWithMultipleUsers" /\ res.status = 404
    /\ res.id \in CanvasIds /\ ~Exists(res.id)
    /\ canvas_designs # {}

\* C19: bulk share isolates per-target failures.  In the 200 response of a
\* bulk share of list l with role r: every entry of l that names an existing
\* user holds a grant with role r afterwards, whatever the other entries are;
\* an entry that fails leaves the grants of its user id as they were; every
\* entry is reported in exactly one of successful and failed (the entries of
\* existing users in successful, the others in failed, in the order of l);
\* and successCount + errorCount = totalProcessed = the length of l.
C19_BulkShareIsolation ==
    [][ (res'.op = "shareCanvasWithMultipleUsers" /\ res'.status = 200) =>
        \A b \in BulkBodies :
          ( /\ res'.id = b[1] /\ res'.totalProcessed = Len(b[2])
            /\ shareCanvasWithMultipleUsers(b[1], b[2], b[3], res'.userId) )
          => LET l == b[2]
                 existing(x) == userLookup(x) = "found"
                 failing(x) == userLookup(x) # "found"
             IN  /\ \A i \in DOMAIN l : existing(l[i]) =>
                        \E g \in canvas_access' :
                           g.canvasId = b[1] /\ g.userId = l[i] /\ g.role = b[3]
                 /\ \A i \in DOMAIN l : failing(l[i]) =>
                        findAccess(canvas_access', b[1], l[i]) = findAccess(canvas_access, b[1], l[i])
                 /\ res'.successful = SelectSeq(l, existing)
                 /\ res'.failed = SelectSeq(l, failing)
                 /\ Len(res'.successful) + Len(res'.failed) = res'.totalProcessed
                 /\ res'.totalProcessed = Len(l)
      ]_vars

\* a bulk share whose first entry failed and whose second entry got its grant
C19_Witness ==
    /\ res.op = "shareCanvasWithMultipleUsers" /\ res.status = 200
    /\ res.failed = <<GhostUser>> /\ res.successful = <<"u2">>
    /\ res.userId = "u1"
    /\ \E g \in canvas_access : g.canvasId = res.id /\ g.userId = "u2" /\ g.grantedBy = "u1"
    /\ findAccess(canvas_access, res.id, GhostUser) = {}

\* C20: while the store is not connected, every store operation fails with an
\* error: a store method called on its own throws, a handler answers 500 at
\* its first store call (or 400 where it rejects the body before any store
\* call), and none of them gives a result (a value, 200, 201, 403 or 404) or
\* writes anything.
HandlerOps ==
    {"saveCanvas", "getCanvas", "listCanvases", "deleteCanvas", "createBlankCanvas",
     "updateCanvas", "shareCanvas", "shareCanvasWithMultipleUsers", "saveComment",
     "getComments"}
StoreMethodOps == StoreQueries \cup {"revokeAccess", "saveYjsState", "loadYjsState"}
C20_NotConnectedFails ==
    [][ ~connected =>
          /\ res'.op \in StoreMethodOps => res'.status = 500
          /\ res'.op \in HandlerOps =>
                \/ res'.status = 500
                \/ res'.status = 400 /\ res'.op \in BodyValidatedOps \cup {"saveCanvas"}
          /\ res'.op \in StoreMethodOps \cup HandlerOps =>
                /\ UNCHANGED <<canvas_designs, canvas_access, comments>>
                /\ res'.list = <<>> /\ res'.yjsState = <<>> /\ res'.data = NoData
      ]_vars

\* the access query of the store, and a read by a handler, failed while the
\* store was not connected
C20_Witness ==
    /\ ~connected
    /\ res.op \in {"hasAccess", "getCanvas", "loadYjsState", "getComments"}
    /\ res.status = 500

\* C21: connectDatabase terminates after at most 3 attempts; it sets
\* isConnected only when one attempt completed mongoClient.connect() and the
\* connect() of every model; it makes no further attempt after a success;
\* when all 3 attempts fail it returns with isConnected false; and a call
\* made when isConnected makes no attempt.
C21_BoundedConnect ==
    /\ [](startup.attempts <= MaxRetries)
    /\ [](startup.isConnected => (startup.pc = 0 /\ startup.done = ConnectSteps /\ connected))
    /\ [][ startup.isConnected =>
             (startup'.isConnected /\ startup'.pc = 0 /\ startup'.attempts \in {0, startup.attempts}) ]_vars
    /\ [][ (startup.pc # 0 /\ startup'.pc = 0 /\ ~startup'.isConnected) =>
             (startup.attempts = MaxRetries /\ startup'.retries = 0 /\ ~connected') ]_vars
    /\ (startup.pc # 0) ~> (startup.pc = 0)

\* a call has returned degraded after its third attempt failed at a model
C21_Witness ==
    /\ startup.pc = 0 /\ ~startup.isConnected
    /\ startup.attempts = MaxRetries /\ startup.retries = 0
    /\ "mongoClient" \in startup.done /\ startup.done # ConnectSteps
    /\ res.op = "getCanvas" /\ res.status = 500

\* C22: revokeAccess(c, u) returns true exactly when a grant of (c, u) was
\* stored before the call; afterwards no grant of (c, u) is stored and
\* hasAccess(c, u, role) is false for every role; the grants of every other
\* pair, the canvases and the comments are as before; and the only owner
\* grant of a canvas is removed like any other grant.
C22_RevokeRemovesGrant ==
    [][ (res'.op = "revokeAccess" /\ res'.status = 0) =>
          LET c == res'.id
              u == res'.userId
          IN  /\ res'.deleted = (\E g \in canvas_access : g.canvasId = c /\ g.userId = u)
              /\ ~\E g \in canvas_access' : g.canvasId = c /\ g.userId = u
              /\ \A r \in Roles : ~hasAccess(canvas_access', c, u, r)
              /\ OtherPairs(canvas_access', c, {u}) = OtherPairs(canvas_access, c, {u})
              /\ canvas_access' \subseteq canvas_access
              /\ UNCHANGED <<canvas_designs, comments>>
      ]_vars

\* the only owner grant of an existing canvas has just been revoked
C22_Witness ==
    /\ res.op = "revokeAccess" /\ res.status = 0 /\ res.deleted
    /\ Exists(res.id) /\ OwnerOf(res.id) = res.userId
    /\ ~\E g \in canvas_access : g.canvasId = res.id /\ g.role = "owner"
    /\ \E g \in canvas_access : g.canvasId = res.id /\ g.role = "editor"

\* C23: a comment submitted with a key (canvasId, id) that is already stored
\* leaves exactly one comment of that key, with the new text and updatedAt
\* set to the time of the call, and with the createdAt of the first
\* submission.
C23_UpsertKeepsCreatedAt ==
    [][ (res'.op = "saveComment" /\ res'.status = 201) =>
          LET c == res'.id
              k == res'.list[1].id
              old == {x \in comments : x.canvasId = c /\ x.id = k}
              new == {x \in comments' : x.canvasId = c /\ x.id = k}
          IN  /\ Cardinality(new) = 1
              /\ \A x \in new : x.text = res'.list[1].text /\ x.updatedAt = now
              /\ \A x \in new, y \in old : x.createdAt = y.createdAt
      ]_vars

\* C24: getCommentsByCanvasId(c) returns exactly the stored comments whose
\* canvasId is c, each once, in non-decreasing order of timestamp, whatever
\* the order in which they were submitted or re-submitted.
C24_ListingSortedAndExact ==
    (res.op = "getComments" /\ res.status = 200) =>
        /\ {res.list[i] : i \in DOMAIN res.list} = {x \in comments : x.canvasId = res.id}
        /\ \A i, j \in DOMAIN res.list : i # j => res.list[i] # res.list[j]
        /\ \A i, j \in DOMAIN res.list : i < j => res.list[i].timestamp <= res.list[j].timestamp
        /\ res.total = Len(res.list)

\* two comments of canvas "a" are listed, the one stored last first, while
\* the other canvas has a comment of its own
C24_Witness ==
    /\ res.op = "getComments" /\ res.status = 200 /\ res.id = "a"
    /\ Len(res.list) = 2
    /\ res.list[1].timestamp < res.list[2].timestamp
    /\ res.list[1].updatedAt > res.list[2].updatedAt
    /\ \E x \in comments : x.canvasId = "a-b"

\* C25: comments are gated at the viewer level.  On an existing canvas a
\* user holding a viewer, editor or owner grant posts (201, the comment is
\* stored) and reads (200, the comments of the canvas); a user who fails
\* hasAccess(canvas, user, viewer) and is not the canvas's userId is answered
\* 403, no comment is stored and none is returned.
C25_CommentsGatedAtViewer ==
    [][ (res'.op \in {"saveComment", "getComments"} /\ res'.status \notin {400, 500}) =>
          LET c == res'.id
              u == res'.userId
          IN  Exists(c) =>
                /\ (\E r \in Roles : Holds(canvas_access, c, u, r)) =>
                      /\ res'.op = "saveComment" =>
                            (res'.status = 201 /\ res'.list[1] \in comments')
                      /\ res'.op = "getComments" =>
                            /\ res'.status = 200
                            /\ {res'.list[i] : i \in DOMAIN res'.list}
                                  = {x \in comments : x.canvasId = c}
                /\ (~hasAccess(canvas_access, c, u, "viewer") /\ OwnerOf(c) # u) =>
                      /\ res'.status = 403
                      /\ comments' = comments
                      /\ res'.list = <<>>
      ]_vars

\* a user holding only a viewer grant has posted a comment
C25_Witness ==
    /\ res.op = "saveComment" /\ res.status = 201 /\ res.userId = "u2"
    /\ Holds(canvas_access, res.id, "u2", "viewer")
    /\ res.list[1] \in comments

\* C26: saveYjsState is last-write-wins.  On an existing canvas, whatever
\* snapshot was stored before, loadYjsState gives exactly the blob of the
\* latest saveYjsState; the call sets lastSaved and metadata.updatedAt to
\* the time of the call and leaves designData, userId, metadata.createdAt,
\* every other canvas and every grant unchanged.
C26_SnapshotLastWriteWins ==
    [][ (res'.op = "saveYjsState" /\ res'.status = 0 /\ Exists(res'.id)) =>
          LET id == res'.id
              before == CanvasOf(canvas_designs, id)
              after == CanvasOf(canvas_designs', id)
          IN  /\ \E b2 \in Blobs :
                    /\ saveYjsState(id, b2)
                    /\ CanvasDesignModel_loadYjsState(canvas_designs', id) = <<b2>>
              /\ after.lastSaved = <<now>>
              /\ after.metadata.updatedAt = now
              /\ after.designData = before.designData
              /\ after.userId = before.userId
              /\ after.metadata.createdAt = before.metadata.createdAt
              /\ canvas_designs' \ {after} = canvas_designs \ {before}
              /\ canvas_access' = canvas_access
      ]_vars

\* a snapshot has been written at time 1 over a canvas created at time 0
C26_Witness ==
    /\ res.op = "saveYjsState" /\ res.status = 0 /\ Exists(res.id) /\ now = 1
    /\ CanvasOf(canvas_designs, res.id).yjsState = <<<<255>>>>
    /\ CanvasOf(canvas_designs, res.id).lastSaved = <<1>>
    /\ CanvasOf(canvas_designs, res.id).metadata.createdAt = 0
    /\ canvas_access # {}

\* C27: batch reconciliation is idempotent and safe to re-run.  One run of
\* migrateExistingCanvases stores an owner grant for the userId of every
\* canvas whose userId holds no grant on it, changes no grant that was
\* stored before, and a second run right after it changes nothing.
C27_MigrationCompleteAndIdempotent ==
    [][ (res'.op = "migrateExistingCanvases" /\ res'.status = 0) =>
          /\ \A d \in canvas_designs :
                (~\E g \in canvas_access : g.canvasId = d._id /\ g.userId = d.userId)
                   => Holds(canvas_access', d._id, d.userId, "owner")
          /\ canvas_access \subseteq canvas_access'
          /\ \A canvases \in findAll(canvas_designs', MigrationLimit) :
                migrateLoop(canvas_access', canvases) = canvas_access'
      ]_vars

\* C28: grant calls that run concurrently for the same (canvasId, userId)
\* with different roles leave, in every interleaving, exactly one grant of
\* the pair, and its role, grantedBy and grantedAt are those of one call,
\* the one whose write the store carried out last.
C28_ConcurrentGrantsOneWinner ==
    /\ [](\A x, y \in canvas_access :
            (x.canvasId = y.canvasId /\ x.userId = y.userId) => x = y)
    /\ [][ \A p \in Procs :
             (inflight[p].pc = "replaceOne" /\ inflight'[p].pc = "done") =>
                {g \in canvas_access' : /\ g.canvasId = inflight[p].access.canvasId
                                        /\ g.userId = inflight[p].access.userId}
                   = {inflight[p].access} ]_vars

\* both calls for the pair (a, u2) were in progress together with different
\* roles, granters and times; p1 was called first and its write came last
C28_Witness ==
    /\ inflight["p1"].pc = "done" /\ inflight["p2"].pc = "done"
    /\ inflight["p1"].access.userId = "u2" /\ inflight["p2"].access.userId = "u2"
    /\ inflight["p1"].access.role = "viewer" /\ inflight["p2"].access.role = "editor"
    /\ inflight["p1"].access.grantedBy # inflight["p2"].access.grantedBy
    /\ inflight["p1"].access.grantedAt < inflight["p2"].access.grantedAt
    /\ res.op = "grantAccessWrite"
    /\ canvas_access = {inflight["p1"].access}

\* C29: when createBlank or a first-time save has stored the canvas and the
\* owner-grant step then fails, the canvas stays stored with zero grants,
\* and the failure is recoverable: the listing of the canvas's userId still
\* contains the canvas, and the next getCanvas, updateCanvas or shareCanvas
\* of that user on it is answered 200 and leaves the user's owner grant
\* stored.
C29_GrantFailureRecoverable ==
    [][ /\ (res'.op \in {"createBlankCanvas", "saveCanvas"} /\ res'.status = 500 /\ connected) =>
              /\ findById(canvas_designs', res'.id) # {}
              /\ GrantsOf(canvas_access', res'.id) = {}
        /\ (res'.op = "listCanvases" /\ res'.status = 200) =>
              \A d \in canvas_designs :
                 (d.userId = res'.userId /\ GrantsOf(canvas_access, d._id) = {}) =>
                    \E i \in DOMAIN res'.list : res'.list[i] = d._id
        /\ ( /\ res'.op \in {"getCanvas", "updateCanvas", "shareCanvas"}
             /\ res'.status \notin {400, 500}
             /\ Exists(res'.id)
             /\ OwnerOf(res'.id) = res'.userId
             /\ GrantsOf(canvas_access, res'.id) = {} ) =>
              /\ res'.status = 200
              /\ Holds(canvas_access', res'.id, res'.userId, "owner")
      ]_vars

\* C30: when two different users concurrently issue a first-time save of
\* the same new canvas id, then in every interleaving of their existence
\* checks, upsert writes and grant steps the final state has exactly one
\* owner grant of that canvas, held by the canvas's userId.
C30_ConcurrentCreateOneOwner ==
    \A id \in CanvasIds :
       (\A p \in Procs : /\ inflight[p].op = "save" /\ inflight[p].pc = "done"
                         /\ inflight[p].id = id /\ inflight[p].firstTime) =>
          LET owners == {g \in canvas_access : g.canvasId = id /\ g.role = "owner"}
          IN  /\ Cardinality(owners) = 1
              /\ \A g \in owners : g.userId = OwnerOf(id)

\* C31: no dangling grants.  In every state in which no request is in
\* progress (no store call fails in this specification), every stored grant
\* refers to a stored canvas, also when a deleteCanvas ran between the
\* access check and the grant write of a concurrent share.
C31_NoDanglingGrants ==
    (\A p \in Procs : inflight[p].pc \in {"none", "done"}) =>
        \A g \in canvas_access : \E d \in canvas_designs : d._id = g.canvasId

\* C32: an update request never creates a canvas.  No step of an
\* updateCanvas request that finds no canvas of its id stored stores one or
\* changes a grant of that id, so that after a delete between the update's
\* check and its write neither a canvas nor a grant of the id is stored.
C32_UpdateNeverCreates ==
    [][ \A p \in Procs :
          ( /\ inflight[p].op = "save" /\ "handler" \in DOMAIN inflight[p]
            /\ inflight'[p] # inflight[p]
            /\ inflight'[p].op = "save" /\ "handler" \in DOMAIN inflight'[p]
            /\ findById(canvas_designs, inflight[p].id) = {} ) =>
              /\ findById(canvas_designs', inflight[p].id) = {}
              /\ GrantsOf(canvas_access', inflight[p].id) = GrantsOf(canvas_access, inflight[p].id)
      ]_vars

\* C33: self-heal restores access only for the user who created the canvas.
\* u2, who did not create canvas "a" and holds no grant on it (never
\* granted, or revoked), is answered 403 on every read, update, share and
\* comment request on it and still holds no grant afterwards, also when u2
\* updated the canvas while holding editor.
C33_SelfHealOnlyForCreator ==
    [][ ( /\ res'.op \in {"getCanvas", "updateCanvas", "shareCanvas", "saveComment", "getComments"}
          /\ res'.userId = "u2" /\ res'.id = "a"
          /\ res'.status \notin {400, 500}
          /\ Exists("a")
          /\ ~\E g \in canvas_access : g.canvasId = "a" /\ g.userId = "u2" ) =>
            /\ res'.status = 403
            /\ ~\E g \in canvas_access' : g.canvasId = "a" /\ g.userId = "u2"
      ]_vars

\* C34: no privilege escalation through sharing.  After a share or bulk
\* share answered 200, the role written for each target is not higher than
\* the role the acting user held on the canvas when the request was
\* checked, and a request by a user holding only editor writes no owner
\* grant.
C34_NoEscalationBySharing ==
    [][ (res'.op \in {"shareCanvas", "shareCanvasWithMultipleUsers"} /\ res'.status = 200) =>
          LET id == res'.id
              actor == res'.userId
              held == {g \in canvas_access : g.canvasId = id /\ g.userId = actor}
              actorLevel == IF held = {} THEN 0
                            ELSE roleHierarchy[(CHOOSE g \in held : TRUE).role]
              written == {g \in canvas_access' \ canvas_access : g.canvasId = id}
          IN  /\ \A g \in written : g.userId # actor => roleHierarchy[g.role] <= actorLevel
              /\ actorLevel = roleHierarchy["editor"] => \A g \in written : g.role # "owner"
      ]_vars

\* C35: a request answered 403 (Forbidden) or 404 (NotFound) leaves
\* canvases, grants and comments exactly as they were.  The only write an
\* access check itself performs is the self-heal owner grant: a step of a
\* reading handler (getCanvas, getComments, listCanvases), or of
\* updateCanvas or shareCanvas answered 400 after the check, changes the
\* grants only by writing the owner grant of the caller, and only when the
\* caller is the userId recorded on the canvas.
C35_DeniedRequestsWriteNothing ==
    [][ res'.op \in HandlerOps =>
          /\ res'.status \in {403, 404} =>
                UNCHANGED <<canvas_designs, canvas_access, comments>>
          /\ ( \/ res'.op \in {"getCanvas", "getComments", "listCanvases"}
               \/ res'.op \in {"updateCanvas", "shareCanvas"} /\ res'.status = 400 ) =>
                /\ UNCHANGED <<canvas_designs, comments>>
                /\ \/ UNCHANGED canvas_access
                   \/ /\ \E c \in canvas_designs : c._id = res'.id /\ c.userId = res'.userId
                      /\ canvas_access' =
                            grantAccess(canvas_access, res'.id, res'.userId, "owner", res'.userId)
      ]_vars

\* a request by a user without a grant was answered 403 on an existing
\* canvas that carries grants
C35_Witness ==
    /\ res.op = "getCanvas" /\ res.status = 403
    /\ \E c \in canvas_designs : c._id = res.id /\ c.userId # res.userId
    /\ \E g \in canvas_access : g.canvasId = res.id
    /\ ~\E g \in canvas_access : g.canvasId = res.id /\ g.userId = res.userId

\* C36: comments of different canvases never interfere.  A step that saves
\* or deletes a comment on one canvas leaves the comments listed for every
\* other canvas exactly as they were, also for comment ids that contain '-'.
C36_CanvasesDoNotInterfere ==
    [][ ( \/ res'.op = "saveComment" /\ res'.status = 201
          \/ res'.op = "deleteComment" ) =>
            \A c2 \in CanvasIds \ {res'.id} :
                getCommentsByCanvasId(comments', c2) = getCommentsByCanvasId(comments, c2)
      ]_vars

\* C37: saveYjsState on an id for which no canvas exists stores nothing and
\* creates no canvas: the canvases are unchanged, findById and loadYjsState
\* for that id still give absent.  loadYjsState gives absent for a missing
\* canvas and for a canvas on which no snapshot was ever saved: a canvas
\* comes to carry a snapshot by no step but a saveYjsState on its id, and
\* a canvas carrying none is answered absent.
C37_SnapshotOfMissingCanvas ==
    [][ /\ ( /\ res'.op = "saveYjsState" /\ res'.status # 500
             /\ findById(canvas_designs, res'.id) = {} ) =>
                /\ canvas_designs' = canvas_designs
                /\ findById(canvas_designs', res'.id) = {}
                /\ CanvasDesignModel_loadYjsState(canvas_designs', res'.id) = <<>>
        /\ ~(res'.op = "saveYjsState" /\ res'.status # 500) =>
                \A d \in canvas_designs' :
                    d.yjsState # <<>> =>
                        \E e \in canvas_designs : e._id = d._id /\ e.yjsState # <<>>
        /\ ( /\ res'.op = "loadYjsState" /\ res'.status # 500
             /\ \A d \in canvas_designs : d._id = res'.id => d.yjsState = <<>> ) =>
                res'.yjsState = <<>>
      ]_vars

\* a snapshot was saved on an id whose canvas had been deleted, while
\* another canvas exists
C37_Witness ==
    /\ res.op = "saveYjsState" /\ res.status # 500
    /\ findById(canvas_designs, res.id) = {}
    /\ canvas_designs # {}

\* C38: the result of hasAccess does not depend on expiresAt.  For the
\* stored grants and the same grants with the expiresAt of one of them
\* replaced by any other value, hasAccess gives the same result for every
\* canvas, user and role; a grant whose expiresAt lies in the past passes
\* exactly the checks its role allows, and that is what a hasAccess call
\* returns.
C38_ExpiryIgnored ==
    /\ \A g \in canvas_access, e \in ExpiryInputs \cup {<<now>>} :
            "expiresAt" \in DOMAIN g =>
                LET other == (canvas_access \ {g}) \cup {[g EXCEPT !.expiresAt = e]}
                IN  \A c \in CanvasIds, u \in Users, r \in Roles :
                        hasAccess(canvas_access, c, u, r) = hasAccess(other, c, u, r)
    /\ \A g \in canvas_access, r \in Roles :
            ("expiresAt" \in DOMAIN g /\ g.expiresAt # <<>> /\ g.expiresAt[1] < now) =>
                hasAccess(canvas_access, g.canvasId, g.userId, r)
                    = (roleHierarchy[g.role] >= roleHierarchy[r])
    /\ (res.op = "hasAccess" /\ res.status = 0) =>
            res.permitted =
                \E g \in canvas_access :
                    /\ g.canvasId = res.id /\ g.userId = res.userId
                    /\ roleHierarchy[g.role] >= roleHierarchy[res.requiredRole]

\* hasAccess returned true for a user whose grant expired in the past
C38_Witness ==
    /\ res.op = "hasAccess" /\ res.status = 0 /\ res.permitted
    /\ \E g \in canvas_access :
            /\ g.canvasId = res.id /\ g.userId = res.userId
            /\ "expiresAt" \in DOMAIN g /\ g.expiresAt # <<>> /\ g.expiresAt[1] < now

====
